---------------------------- MODULE Spec2Model ----------------------------
(***************************************************************************)
(* Model of mytools/frequency_db_utils/word_adder.py: the pipeline that    *)
(* turns a user-submitted word or phrase into an ordered list of           *)
(* parameterized SQL statements (prepare_word_actions), and the execution  *)
(* of those statements plus the live homophone linking (add_word) against  *)
(* the `words` table.                                                      *)
(*                                                                         *)
(* Text is modelled character by character: a Python str is a sequence of  *)
(* one-character strings.  Characters outside ASCII are written by their   *)
(* code point ("u2019" is the typographic apostrophe, "u203F" the liaison  *)
(* marker, "u00F3" the o-acute of the homophone section separator).        *)
(* Python None and SQL NULL are the value Null.                            *)
(***************************************************************************)
EXTENDS Integers, Sequences, FiniteSets, TLC

Null == <<"NULL">>

\* ------------------------------------------------------------------------
\* Character classes (Python's str.strip(), \s, string.punctuation)
\* ------------------------------------------------------------------------

WhitespaceChars == {" ", "\t", "\n", "\r"}

AsciiPunctuation ==
    {"!", "\"", "#", "$", "%", "&", "'", "(", ")", "*", "+", ",", "-", ".",
     "/", ":", ";", "<", "=", ">", "?", "@", "[", "u005C", "]", "^", "_", "u0060",
     "{", "|", "}", "~"}

TypographicEdgeChars ==
    {"u201C", "u201D", "u2018", "u2019", "u00AB", "u00BB", "u00BF", "u00A1",
     "u2026", "u2013", "u2014", "u00B7"}

_UNICODE_APOSTROPHES == {"u2019", "u02BC", "u2032", "u2018"}

UpperLetters == <<"A","B","C","D","E","F","G","H","I","J","K","L","M",
                  "N","O","P","Q","R","S","T","U","V","W","X","Y","Z">>
LowerLetters == <<"a","b","c","d","e","f","g","h","i","j","k","l","m",
                  "n","o","p","q","r","s","t","u","v","w","x","y","z">>

LowerChar(c) ==
    IF \E i \in 1..Len(UpperLetters) : UpperLetters[i] = c
    THEN LowerLetters[CHOOSE i \in 1..Len(UpperLetters) : UpperLetters[i] = c]
    ELSE c

IsLetter(c) ==
    \E i \in 1..Len(UpperLetters) : UpperLetters[i] = c \/ LowerLetters[i] = c

\* ------------------------------------------------------------------------
\* String primitives
\* ------------------------------------------------------------------------

Lower(s) == [i \in 1..Len(s) |-> LowerChar(s[i])]

RECURSIVE LStripSet(_, _)
LStripSet(s, cs) ==
    IF s = <<>> THEN s
    ELSE IF Head(s) \in cs THEN LStripSet(Tail(s), cs) ELSE s

RECURSIVE RStripSet(_, _)
RStripSet(s, cs) ==
    IF s = <<>> THEN s
    ELSE IF s[Len(s)] \in cs THEN RStripSet(SubSeq(s, 1, Len(s) - 1), cs) ELSE s

\* str.strip(chars)
StripSet(s, cs) == RStripSet(LStripSet(s, cs), cs)

\* str.strip()
Strip(s) == StripSet(s, WhitespaceChars)

\* (value or "").strip() for a value that may be None
StripOrEmpty(v) == IF v = Null THEN <<>> ELSE Strip(v)

\* re.sub(r"\s+", " ", s)
RECURSIVE CollapseWhitespace(_)
CollapseWhitespace(s) ==
    IF s = <<>> THEN s
    ELSE IF Head(s) \in WhitespaceChars
         THEN <<" ">> \o CollapseWhitespace(LStripSet(s, WhitespaceChars))
         ELSE <<Head(s)>> \o CollapseWhitespace(Tail(s))

StartsWith(s, p) == Len(s) >= Len(p) /\ SubSeq(s, 1, Len(p)) = p

EndsWith(s, p) == Len(s) >= Len(p) /\ SubSeq(s, Len(s) - Len(p) + 1, Len(s)) = p

\* 1-based index of the first occurrence of sub in s, 0 when absent
\* (SQL position(sub in s); Python `sub in s` is IndexOf > 0).
IndexOf(s, sub) ==
    LET hits == {i \in 1..(Len(s) - Len(sub) + 1) : SubSeq(s, i, i + Len(sub) - 1) = sub}
    IN IF hits = {} THEN 0 ELSE CHOOSE i \in hits : \A j \in hits : i <= j

Contains(s, sub) == IndexOf(s, sub) > 0

HasChar(s, c) == \E i \in 1..Len(s) : s[i] = c

CountChar(s, c) == Cardinality({i \in 1..Len(s) : s[i] = c})

\* str.replace(c, "") / str.translate for single characters
RemoveChars(s, cs) == SelectSeq(s, LAMBDA c : c \notin cs)

MapChars(s, cs, to) == [i \in 1..Len(s) |-> IF s[i] \in cs THEN to ELSE s[i]]

\* str.split(c): the fields between occurrences of the character c
RECURSIVE SplitChars(_, _)
SplitChars(s, cs) ==
    LET hits == {i \in 1..Len(s) : s[i] \in cs}
    IN IF hits = {} THEN <<s>>
       ELSE LET i == CHOOSE k \in hits : \A j \in hits : k <= j
            IN <<SubSeq(s, 1, i - 1)>> \o SplitChars(SubSeq(s, i + 1, Len(s)), cs)

\* sep.join(items)
RECURSIVE Join(_, _)
Join(items, sep) ==
    IF items = <<>> THEN <<>>
    ELSE IF Len(items) = 1 THEN items[1]
    ELSE items[1] \o sep \o Join(Tail(items), sep)

SeqToSet(q) == {q[i] : i \in 1..Len(q)}

\* ------------------------------------------------------------------------
\* Normalizer and tokenizer
\* ------------------------------------------------------------------------

_normalize_apostrophes(text) == MapChars(text, _UNICODE_APOSTROPHES, "'")

EdgeStripChars ==
    (AsciiPunctuation \ {"'"}) \cup TypographicEdgeChars \cup {"\t", "\n", "\r"}

_strip_edge_punctuation(text) ==
    LET s == Strip(text)
    IN IF s = <<>> THEN <<>> ELSE StripSet(s, EdgeStripChars)

_normalize_user_text(language, text) ==
    LET s1 == _normalize_apostrophes(text)
        s2 == _strip_edge_punctuation(s1)
        s3 == Strip(CollapseWhitespace(s2))
    IN IF Lower(language) \in {<<"f","r">>, <<"d","e">>} THEN Lower(s3) ELSE s3

\* re.match(r"^(d|l)'(.+)$", w, re.IGNORECASE): the text after the prefix
_fr_drop_contraction_prefix(token) ==
    LET w == Strip(token)
    IN IF w = <<>> THEN <<>>
       ELSE IF Len(w) >= 3 /\ LowerChar(w[1]) \in {"d", "l"} /\ w[2] = "'"
                 /\ ~HasChar(SubSeq(w, 3, Len(w)), "\n")
            THEN LET rhs == Strip(SubSeq(w, 3, Len(w)))
                 IN IF rhs # <<>> THEN rhs ELSE w
            ELSE w

_normalize_phrase_for_tts_storage(language, phrase) ==
    LET lang == Lower(Strip(language))
        s == _normalize_user_text(lang, phrase)
    IN IF s = <<>> THEN <<>>
       ELSE LET s1 == RemoveChars(s, {"'"})
                s2 == MapChars(s1, (AsciiPunctuation \ {"'"}) \cup TypographicEdgeChars, " ")
                s3 == Strip(CollapseWhitespace(s2))
            IN IF lang \in {<<"f","r">>, <<"d","e">>} THEN Lower(s3) ELSE s3

TokenStripChars ==
    {"\"", "u201C", "u201D", "u2018", "u2019", "(", ")", "[", "]", "{", "}",
     ".", ",", ";", ":", "!", "?", "u00AB", "u00BB"}

\* one part of re.split(r"\s+", text) through the loop body of _tokenize_phrase
TokenOfPart(language, part) ==
    LET p1 == StripSet(_normalize_apostrophes(Strip(part)), TokenStripChars)
        p2 == IF Lower(language) \in {<<"f","r">>, <<"d","e">>} THEN Lower(p1) ELSE p1
    IN IF p1 = <<>> THEN <<>>
       ELSE IF Lower(language) = <<"f","r">> THEN _fr_drop_contraction_prefix(p2) ELSE p2

_tokenize_phrase(language, phrase) ==
    LET text == _normalize_user_text(language, phrase)
        parts == SplitChars(CollapseWhitespace(text), {" "})
        toks == [i \in 1..Len(parts) |-> TokenOfPart(language, parts[i])]
    IN IF text = <<>> THEN <<>> ELSE SelectSeq(toks, LAMBDA t : t # <<>>)

_canonical_word_for_homophones(language, word) ==
    LET lang == Lower(Strip(language))
        s == _normalize_user_text(lang, word)
    IN IF lang = <<"f","r">> THEN _fr_drop_contraction_prefix(s) ELSE s

_should_link_homophones_for_word(env_link, word) ==
    IF Lower(StripOrEmpty(env_link)) \in {<<"0">>, <<"f","a","l","s","e">>, <<"n","o">>, <<"o","f","f">>}
    THEN FALSE
    ELSE IF word = Null \/ word = <<>> THEN FALSE
    ELSE IF HasChar(Strip(word), " ") THEN FALSE
    ELSE _canonical_word_for_homophones(<<"f","r">>, word) = Strip(word)

\* ------------------------------------------------------------------------
\* Association text and the homophone suffix
\* ------------------------------------------------------------------------

\* " | homófonos: "
_HOMOPHONE_SECTION_SEPARATOR ==
    <<" ", "|", " ", "h", "o", "m", "u00F3", "f", "o", "n", "o", "s", ":", " ">>

_HOMOPHONE_ITEM_SEPARATOR == <<";", " ">>

\* str.split(sep, 1): <<before, after>> of the first occurrence of sep
SplitOnce(s, sep) ==
    LET i == IndexOf(s, sep)
    IN <<SubSeq(s, 1, i - 1), SubSeq(s, i + Len(sep), Len(s))>>

\* the items list built by _append_homophone_to_association from the tail
HomophoneItems(assoc) ==
    IF Contains(assoc, _HOMOPHONE_SECTION_SEPARATOR)
    THEN LET parts == SplitChars(SplitOnce(assoc, _HOMOPHONE_SECTION_SEPARATOR)[2], {";"})
             stripped == [i \in 1..Len(parts) |-> Strip(parts[i])]
         IN SelectSeq(stripped, LAMBDA p : p # <<>>)
    ELSE <<>>

_append_homophone_to_association(association, homophone_word) ==
    LET assoc == StripOrEmpty(association)
        h == StripOrEmpty(homophone_word)
        base == IF Contains(assoc, _HOMOPHONE_SECTION_SEPARATOR)
                THEN Strip(SplitOnce(assoc, _HOMOPHONE_SECTION_SEPARATOR)[1])
                ELSE assoc
        items == HomophoneItems(assoc)
    IN IF h = <<>> THEN assoc
       ELSE IF assoc = <<>> THEN h
       ELSE IF h \in SeqToSet(items) THEN assoc
       ELSE base \o _HOMOPHONE_SECTION_SEPARATOR
                 \o Join(Append(items, h), _HOMOPHONE_ITEM_SEPARATOR)

\* ------------------------------------------------------------------------
\* SQL templates.  A template is the statement text cut into the tokens that
\* matter: "%s" is a positional placeholder, "%%" an escaped literal
\* percent sign, "%" a bare one, "{table}" the interpolated registry name.
\* ------------------------------------------------------------------------

NotExistsClause ==
    <<"NOT EXISTS", "SELECT 1 FROM", "{table}", "r.user_id =", "%s",
      "r.language =", "%s", "r.palabra =", "%s">>

InsertGuardedSql(table) ==
    [op |-> "INSERT", table |-> table,
     text |-> <<"INSERT INTO words", "SELECT", "%s", "%s", "'New'", "%s", "%s", "WHERE">>
              \o NotExistsClause \o <<"ON CONFLICT (word, list_id) DO NOTHING">>]

InsertPlainSql ==
    [op |-> "INSERT", table |-> <<>>,
     text |-> <<"INSERT INTO words", "VALUES", "%s", "%s", "'New'", "%s", "%s",
                "ON CONFLICT (word, list_id) DO NOTHING">>]

UpdateIpaText ==
    <<"UPDATE words SET IPA_word =", "%s", "WHERE word =", "%s", "AND list_id =", "%s",
      "AND IPA_word IS NULL">>

UpdateIpaSql(reject_enabled, table) ==
    [op |-> "UPDATE_IPA", table |-> IF reject_enabled THEN table ELSE <<>>,
     text |-> IF reject_enabled THEN UpdateIpaText \o <<"AND">> \o NotExistsClause
              ELSE UpdateIpaText]

UpdateAssocText ==
    <<"UPDATE words SET association =", "%s", "WHERE word =", "%s", "AND list_id =", "%s",
      "AND (association IS NULL OR association = ''">>

\* the repair pattern with its percent signs left single
RepairClauseSinglePercent == <<"OR association LIKE", "%", ",", "%", ",", "%">>

\* OR association LIKE '%%,%%,%%'
RepairClause == <<"OR association LIKE", "%%", ",", "%%", ",", "%%">>

UpdateAssocSql(reject_enabled, table) ==
    [op |-> "UPDATE_ASSOC", table |-> IF reject_enabled THEN table ELSE <<>>,
     text |-> UpdateAssocText \o RepairClause \o <<")">>
              \o (IF reject_enabled THEN <<"AND">> \o NotExistsClause ELSE <<>>)]

PhraseUpdateAssocSql(reject_enabled, table) ==
    [op |-> "UPDATE_ASSOC", table |-> IF reject_enabled THEN table ELSE <<>>,
     text |-> UpdateAssocText \o <<")">>
              \o (IF reject_enabled THEN <<"AND">> \o NotExistsClause ELSE <<>>)]

\* the filter on the other word repeated in both link statements
EligibleClause ==
    <<"word NOT LIKE", "%%", " ", "%%", "word NOT LIKE", "d''", "%%",
      "word NOT LIKE", "l''", "%%", "word NOT LIKE", "%%", ".",
      "word NOT LIKE", "%%", ",", "word NOT LIKE", "%%", ";",
      "word NOT LIKE", "%%", ":">>

LinkSelfSql ==
    [op |-> "LINK_SELF", table |-> <<>>,
     text |-> <<"UPDATE words w1 SET association = CASE",
                "WHEN w1.association IS NULL OR w1.association = '' THEN string_agg">>
              \o EligibleClause
              \o <<"WHEN position(sep in w1.association) > 0 THEN w1.association || '; ' || string_agg">>
              \o EligibleClause \o <<"AND NOT w2.word = ANY(tail)">>
              \o <<"ELSE w1.association || sep || string_agg">>
              \o EligibleClause \o <<"AND NOT w2.word = ANY(tail)", "END">>
              \o <<"WHERE w1.list_id =", "%s", "AND w1.word =", "%s", "AND w1.IPA_word =", "%s",
                   "AND EXISTS">>
              \o EligibleClause \o <<"AND NOT w2.word = ANY(tail)">>]

LinkOthersSql ==
    [op |-> "LINK_OTHERS", table |-> <<>>,
     text |-> <<"UPDATE words w SET association = CASE",
                "WHEN w.association IS NULL OR w.association = '' THEN", "%s",
                "WHEN position(sep in w.association) > 0 THEN w.association || '; ' ||", "%s",
                "ELSE w.association || sep ||", "%s", "END",
                "WHERE w.list_id =", "%s", "AND w.IPA_word =", "%s", "AND w.word <>", "%s">>
              \o EligibleClause \o <<"AND NOT", "%s", "= ANY(tail)">>]

CountToken(text, tok) == Cardinality({i \in 1..Len(text) : text[i] = tok})

Guarded(sql) == CountToken(sql.text, "NOT EXISTS") > 0

HasRepairClause(sql) == CountToken(sql.text, "OR association LIKE") > 0

\* ------------------------------------------------------------------------
\* Execution of the statements against the words table.  The table is the
\* sequence of its rows in insertion order (the position is the row id);
\* a registry is a set of <<user_id, language, palabra>> triples.
\* ------------------------------------------------------------------------

Row(word, association, list_id, ipa) ==
    [word |-> word, association |-> association, list_id |-> list_id, ipa |-> ipa]

\* predicate  NOT EXISTS (SELECT 1 FROM {table} r WHERE r.user_id = %s AND ...)
NotRejected(registry, user_id, lang, palabra) ==
    <<user_id, lang, palabra>> \notin registry

\* the last three parameters of a guarded statement
GuardPasses(registry, sql, params) ==
    Guarded(sql) =>
        NotRejected(registry, params[Len(params) - 2], params[Len(params) - 1],
                    params[Len(params)])

\* a unique index on (word, list_id) is what ON CONFLICT (word, list_id) names
Conflicts(tbl, word, list_id) ==
    \E i \in 1..Len(tbl) : tbl[i].word = word /\ tbl[i].list_id = list_id

\* an insert whose ON CONFLICT target finds no unique index to consult
ExecInsertNoConflictCheck(tbl, registry, sql, params) ==
    IF ~GuardPasses(registry, sql, params) THEN tbl
    ELSE Append(tbl, Row(params[1], params[2], params[3], params[4]))

\* INSERT ... (word, association, list_id, IPA_word) ... ON CONFLICT DO NOTHING
ExecInsert(tbl, registry, sql, params) ==
    IF ~GuardPasses(registry, sql, params) THEN tbl
    ELSE IF Conflicts(tbl, params[1], params[3]) THEN tbl
    ELSE Append(tbl, Row(params[1], params[2], params[3], params[4]))

\* UPDATE words SET "IPA_word" = %s WHERE word = %s AND list_id = %s AND
\* "IPA_word" IS NULL
ExecUpdateIpa(tbl, registry, sql, params) ==
    [i \in 1..Len(tbl) |->
        IF /\ tbl[i].word = params[2]
           /\ tbl[i].list_id = params[3]
           /\ tbl[i].ipa = Null
           /\ GuardPasses(registry, sql, params)
        THEN [tbl[i] EXCEPT !.ipa = params[1]]
        ELSE tbl[i]]

\* association LIKE '%,%,%'
LikeTwoCommas(assoc) == assoc # Null /\ CountChar(assoc, ",") >= 2

ExecUpdateAssoc(tbl, registry, sql, params) ==
    [i \in 1..Len(tbl) |->
        IF /\ tbl[i].word = params[2]
           /\ tbl[i].list_id = params[3]
           /\ \/ tbl[i].association \in {Null, <<>>}
              \/ HasRepairClause(sql) /\ LikeTwoCommas(tbl[i].association)
           /\ GuardPasses(registry, sql, params)
        THEN [tbl[i] EXCEPT !.association = params[1]]
        ELSE tbl[i]]

\* regexp_split_to_array(s, '\s*;\s*')
RegexpSplitItems(s) ==
    LET parts == SplitChars(s, {";"})
        n == Len(parts)
    IN  [k \in 1..n |->
            LET a == IF k > 1 THEN LStripSet(parts[k], WhitespaceChars) ELSE parts[k]
            IN  IF k < n THEN RStripSet(a, WhitespaceChars) ELSE a]

\* regexp_split_to_array(CASE WHEN position(sep in a) > 0
\*                       THEN split_part(a, sep, 2) ELSE '' END, '\s*;\s*')
\* with a = COALESCE(association, '')
SplitPart2(a, sep) ==
    LET rest == SplitOnce(a, sep)[2]
    IN  IF Contains(rest, sep) THEN SplitOnce(rest, sep)[1] ELSE rest

SqlTailItems(association) ==
    LET a == IF association = Null THEN <<>> ELSE association
    IN  IF Contains(a, _HOMOPHONE_SECTION_SEPARATOR)
        THEN SeqToSet(RegexpSplitItems(SplitPart2(a, _HOMOPHONE_SECTION_SEPARATOR)))
        ELSE {<<>>}

\* the NOT LIKE filters on the other word
SqlEligibleWord(w) ==
    /\ ~HasChar(w, " ")
    /\ ~StartsWith(w, <<"d", "'">>)
    /\ ~StartsWith(w, <<"l", "'">>)
    /\ ~EndsWith(w, <<".">>)
    /\ ~EndsWith(w, <<",">>)
    /\ ~EndsWith(w, <<";">>)
    /\ ~EndsWith(w, <<":">>)

\* rows w2 of the sub-selects of the first link statement, for the row at i
HomophoneRows(tbl, i) ==
    {j \in 1..Len(tbl) :
        /\ tbl[j].list_id = tbl[i].list_id
        /\ tbl[i].ipa # Null /\ tbl[j].ipa = tbl[i].ipa
        /\ tbl[j].word # tbl[i].word
        /\ SqlEligibleWord(tbl[j].word)}

MissingHomophoneRows(tbl, i) ==
    {j \in HomophoneRows(tbl, i) : tbl[j].word \notin SqlTailItems(tbl[i].association)}

\* string_agg(w2.word, '; ') over the rows js taken in the order `order`
StringAgg(tbl, js, order) ==
    Join([k \in 1..Len(SelectSeq(order, LAMBDA j : j \in js)) |->
             tbl[SelectSeq(order, LAMBDA j : j \in js)[k]].word],
         _HOMOPHONE_ITEM_SEPARATOR)

LinkSelfMatches(tbl, i, params) ==
    /\ tbl[i].list_id = params[1]
    /\ tbl[i].word = params[2]
    /\ tbl[i].ipa = params[3]
    /\ MissingHomophoneRows(tbl, i) # {}

ExecLinkSelf(tbl, params, order) ==
    [i \in 1..Len(tbl) |->
        IF LinkSelfMatches(tbl, i, params)
        THEN [tbl[i] EXCEPT !.association =
                IF tbl[i].association \in {Null, <<>>}
                THEN StringAgg(tbl, HomophoneRows(tbl, i), order)
                ELSE IF Contains(tbl[i].association, _HOMOPHONE_SECTION_SEPARATOR)
                THEN tbl[i].association \o _HOMOPHONE_ITEM_SEPARATOR
                     \o StringAgg(tbl, MissingHomophoneRows(tbl, i), order)
                ELSE tbl[i].association \o _HOMOPHONE_SECTION_SEPARATOR
                     \o StringAgg(tbl, MissingHomophoneRows(tbl, i), order)]
        ELSE tbl[i]]

LinkOthersMatches(tbl, i, params) ==
    /\ tbl[i].list_id = params[4]
    /\ tbl[i].ipa = params[5]
    /\ tbl[i].word # params[6]
    /\ SqlEligibleWord(tbl[i].word)
    /\ params[7] \notin SqlTailItems(tbl[i].association)

ExecLinkOthers(tbl, params) ==
    [i \in 1..Len(tbl) |->
        IF LinkOthersMatches(tbl, i, params)
        THEN [tbl[i] EXCEPT !.association =
                IF tbl[i].association \in {Null, <<>>} THEN params[1]
                ELSE IF Contains(tbl[i].association, _HOMOPHONE_SECTION_SEPARATOR)
                THEN tbl[i].association \o _HOMOPHONE_ITEM_SEPARATOR \o params[2]
                ELSE tbl[i].association \o _HOMOPHONE_SECTION_SEPARATOR \o params[3]]
        ELSE tbl[i]]

\* cur.execute(sql, params); order is the scan order of the aggregate
Execute(tbl, registry, q, order) ==
    CASE q.sql.op = "INSERT" -> ExecInsert(tbl, registry, q.sql, q.params)
      [] q.sql.op = "UPDATE_IPA" -> ExecUpdateIpa(tbl, registry, q.sql, q.params)
      [] q.sql.op = "UPDATE_ASSOC" -> ExecUpdateAssoc(tbl, registry, q.sql, q.params)
      [] q.sql.op = "LINK_SELF" -> ExecLinkSelf(tbl, q.params, order)
      [] q.sql.op = "LINK_OTHERS" -> ExecLinkOthers(tbl, q.params)

\* ------------------------------------------------------------------------
\* Completion-service replies.  The content of a reply is either text that
\* holds no JSON object or a JSON object; an object is a record over every key
\* the callers read, Null standing for a missing key.
\* ------------------------------------------------------------------------

NoFields ==
    [pos |-> Null, part_of_speech |-> Null, lemma |-> Null, is_verb |-> FALSE,
     translation |-> Null, article |-> Null, base_article |-> Null,
     article_base |-> Null, gender |-> Null, genre |-> Null, feminine |-> Null,
     feminine_translation |-> Null, tense |-> Null, infinitive_translation |-> Null,
     forms |-> <<>>, phrase |-> Null, ipa |-> Null]

\* the dict, or None (parsed = FALSE) when raw holds no JSON object
_extract_json_from_text(raw) ==
    [parsed |-> raw.json, obj |-> IF raw.json THEN raw.obj ELSE NoFields]

\* truth value of a parsed reply: None and {} are false
Truthy(p) == p.parsed /\ p.obj # NoFields

\* (value or "")
OrEmpty(v) == IF v = Null THEN <<>> ELSE v

\* a or b
Or(a, b) == IF a = Null \/ a = <<>> THEN b ELSE a

_normalize_ipa_wrapping(ipa) ==
    LET raw == StripOrEmpty(ipa)
    IN  IF raw = <<>> THEN Null
        ELSE IF /\ Len(raw) >= 3
                /\ raw[1] = "/"
                /\ raw[Len(raw)] = "/"
                /\ ~HasChar(SubSeq(raw, 2, Len(raw) - 1), "/")
             THEN IF HasChar(raw, "[") \/ HasChar(raw, "]") THEN Null ELSE raw
        ELSE Null

_simple_ipa_from_text(content) == _normalize_ipa_wrapping(StripOrEmpty(content))

_build_phrase(article, palabra) ==
    LET a == StripSet(OrEmpty(article), {"\n"})
    IN  IF a = <<>> THEN palabra
        ELSE IF a[Len(a)] \in {"'", "u2019", " ", "\t"} THEN a \o palabra
        ELSE a \o <<" ">> \o palabra

ElisionSounds ==
    {"a", "e", "i", "o", "u", "y", "u00E0", "u00E2", "u00E4", "u00E9", "u00E8",
     "u00EA", "u00EB", "u00EE", "u00EF", "u00F4", "u00F6", "u00F9", "u00FB",
     "u00FC", "u0153", "u00E6", "h"}

\* first = word.strip().lower()[:1]; first in "aeiouy...h" (the empty prefix is in it)
_starts_with_french_elision_sound(word) ==
    LET w == Lower(StripOrEmpty(word))
    IN  w = <<>> \/ w[1] \in ElisionSounds

_accept_phrase_correction(language, original_phrase, original_article, palabra, candidate) ==
    LET cand == Strip(candidate)
        orig == Lower(StripOrEmpty(original_article))
    IN  IF cand = <<>> THEN FALSE
        ELSE IF cand = original_phrase THEN TRUE
        ELSE IF Lower(language) # <<"f", "r">> THEN FALSE
        ELSE IF orig \notin {<<"l", "e">>, <<"l", "a">>} THEN FALSE
        ELSE IF ~_starts_with_french_elision_sound(palabra) THEN FALSE
        ELSE cand \in {<<"l", "'">> \o palabra, <<"l", "u2019">> \o palabra}

_normalize_article(article, language) ==
    LET raw == Strip(article)
        lang == Lower(language)
        lowered == Lower(raw)
        allowed == IF lang = <<"f", "r">> THEN {<<"l", "e">>, <<"l", "a">>, <<"l", "e", "s">>, <<"l", "'">>, <<"l", "u2019">>}
                   ELSE {<<"d", "e", "r">>, <<"d", "i", "e">>, <<"d", "a", "s">>, <<"e", "i", "n">>, <<"e", "i", "n", "e">>}
    IN  IF article = <<>> \/ raw = <<>> THEN <<>>
        ELSE IF lang \notin {<<"f", "r">>, <<"d", "e">>} THEN article
        ELSE IF lowered \notin allowed THEN <<>>
        ELSE IF lowered \in {<<"l", "'">>, <<"l", "u2019">>} THEN lowered
        ELSE lowered \o <<" ">>

_normalize_fr_gender(value) ==
    LET raw == Lower(StripOrEmpty(value))
    IN  IF raw \in {<<"m">>, <<"m", "a", "s", "c">>, <<"m", "a", "s", "c", "u", "l", "i", "n">>, <<"m", "a", "s", "c", "u", "l", "i", "n", "e">>} THEN <<"m">>
        ELSE IF raw \in {<<"f">>, <<"f", "e", "m">>, <<"f", "u00E9", "m", "i", "n", "i", "n">>, <<"f", "e", "m", "i", "n", "i", "n", "e">>, <<"f", "e", "m", "e", "n", "i", "n">>, <<"f", "e", "m", "e", "n", "i", "n", "o">>} THEN <<"f">>
        ELSE <<>>

\* re.search(r"\s+\([mf]\)\s*$", p, re.IGNORECASE)
HasGenderMarker(p) ==
    LET q == RStripSet(p, WhitespaceChars)
        n == Len(q)
    IN  /\ n >= 4
        /\ q[n] = ")" /\ LowerChar(q[n - 1]) \in {"m", "f"} /\ q[n - 2] = "("
        /\ q[n - 3] \in WhitespaceChars

_maybe_append_fr_gender_marker(language, phrase, gender) ==
    LET p == StripOrEmpty(phrase)
        marker == _normalize_fr_gender(gender)
    IN  IF Lower(StripOrEmpty(language)) # <<"f", "r">> THEN p
        ELSE IF p = <<>> THEN p
        ELSE IF ~(StartsWith(Lower(p), <<"l", "'">>) \/ StartsWith(Lower(p), <<"l", "u2019">>)) THEN p
        ELSE IF marker \notin {<<"m">>, <<"f">>} THEN p
        ELSE IF HasGenderMarker(p) THEN p
        ELSE p \o <<" ", "(">> \o marker \o <<")">>

_normalize_fr_base_article(value) ==
    LET raw == Lower(StripOrEmpty(value))
    IN  IF raw \in {<<"l", "e">>, <<"l", "a">>, <<"l", "e", "s">>} THEN raw ELSE <<>>

\* index of the first character of s that is in cs, 0 if none
FirstIn(s, cs) ==
    IF \E i \in 1..Len(s) : s[i] \in cs
    THEN CHOOSE i \in 1..Len(s) : s[i] \in cs /\ \A j \in 1..(i - 1) : s[j] \notin cs
    ELSE 0

\* re.sub(r"\s*\([^)]*\)\s*$", "", text)
DropTrailingParenthetical(text) ==
    LET q == RStripSet(text, WhitespaceChars)
        e == Len(q)
        opens == {i \in 1..(e - 1) :
                    q[i] = "(" /\ \A j \in (i + 1)..(e - 1) : q[j] # ")"}
    IN  IF e = 0 \/ q[e] # ")" \/ opens = {} THEN text
        ELSE LET i == CHOOSE k \in opens : \A j \in opens : k <= j
             IN  RStripSet(SubSeq(q, 1, i - 1), WhitespaceChars)

SpanishDeterminers == {<<"u", "n">>, <<"u", "n", "a">>, <<"u", "n", "o", "s">>, <<"u", "n", "a", "s">>, <<"e", "l">>, <<"l", "a">>, <<"l", "o", "s">>, <<"l", "a", "s">>}

\* re.sub(r"^(un|una|unos|unas|el|la|los|las)\s+", "", text, flags=re.IGNORECASE)
DropLeadingDeterminer(text) ==
    LET k == FirstIn(text, WhitespaceChars)
    IN  IF k > 1 /\ Lower(SubSeq(text, 1, k - 1)) \in SpanishDeterminers
        THEN LStripSet(SubSeq(text, k, Len(text)), WhitespaceChars)
        ELSE text

_normalize_spanish_noun_translation(translation) ==
    LET t0 == StripOrEmpty(translation)
        t1 == Strip(SplitChars(t0, {",", ";", "|"})[1])
        t2 == Strip(DropTrailingParenthetical(t1))
        t3 == StripSet(t2, {"\"", "'", "u201C", "u201D", "u2018", "u2019"})
        t4 == Strip(DropLeadingDeterminer(t3))
        t5 == _strip_edge_punctuation(t4)
    IN  IF t0 = <<>> THEN <<>> ELSE Strip(CollapseWhitespace(t5))

\* str.replace(sub, to)
RECURSIVE ReplaceSub(_, _, _)
ReplaceSub(s, sub, to) ==
    LET i == IndexOf(s, sub)
    IN  IF i = 0 THEN s
        ELSE SubSeq(s, 1, i - 1) \o to \o ReplaceSub(SubSeq(s, i + Len(sub), Len(s)), sub, to)

\* str.split()
Words(s) == SelectSeq(SplitChars(MapChars(s, WhitespaceChars, " "), {" "}), LAMBDA w : w # <<>>)

\* (is_noun, is_verb, is_adjective, normalized_pos) from the "pos" string
_parse_pos_field(pos_value) ==
    LET isStr == pos_value # Null
        low == Lower(StripOrEmpty(pos_value))
        raw == ReplaceSub(MapChars(low, {"+", "/", "_"}, " "), <<"a", "n", "d">>, <<" ">>)
        tokens == IF isStr THEN SeqToSet(Words(raw)) ELSE {}
        both == isStr /\ \E m \in {<<"n", "o", "u", "n", "_", "v", "e", "r", "b">>, <<"n", "o", "u", "n", "v", "e", "r", "b">>, <<"n", "o", "u", "n", " ", "v", "e", "r", "b">>, <<"v", "e", "r", "b", " ", "n", "o", "u", "n">>, <<"b", "o", "t", "h">>} :
                            Contains(low, m)
        adj == tokens \cap {<<"a", "d", "j", "e", "c", "t", "i", "v", "e">>, <<"a", "d", "j">>, <<"a", "d", "j", "e", "t", "i", "v", "o">>, <<"a", "d", "j", "e", "t", "i", "v", "e">>} # {}
        noun == both \/ tokens \cap {<<"n", "o", "u", "n">>, <<"n">>, <<"s", "u", "s", "t", "a", "n", "t", "i", "v", "o">>, <<"s", "u", "s", "t", "a", "n", "t", "i", "v", "e">>} # {}
        verb == both \/ tokens \cap {<<"v", "e", "r", "b">>, <<"v">>, <<"v", "e", "r", "b", "o">>} # {}
    IN  IF adj THEN [is_noun |-> FALSE, is_verb |-> FALSE, is_adjective |-> TRUE, pos |-> <<"a", "d", "j", "e", "c", "t", "i", "v", "e">>]
        ELSE IF noun /\ verb
        THEN [is_noun |-> TRUE, is_verb |-> TRUE, is_adjective |-> FALSE, pos |-> <<"n", "o", "u", "n", "_", "v", "e", "r", "b">>]
        ELSE IF noun
        THEN [is_noun |-> TRUE, is_verb |-> FALSE, is_adjective |-> FALSE, pos |-> <<"n", "o", "u", "n">>]
        ELSE IF verb
        THEN [is_noun |-> FALSE, is_verb |-> TRUE, is_adjective |-> FALSE, pos |-> <<"v", "e", "r", "b">>]
        ELSE IF tokens # {}
        THEN [is_noun |-> FALSE, is_verb |-> FALSE, is_adjective |-> FALSE, pos |-> <<"o", "t", "h", "e", "r">>]
        ELSE [is_noun |-> FALSE, is_verb |-> FALSE, is_adjective |-> FALSE, pos |-> <<>>]

_looks_like_fr_conjugated_verb_form(word) ==
    LET w == Lower(StripOrEmpty(word))
    IN  IF w = <<>> \/ HasChar(w, " ") THEN FALSE
        ELSE IF w = <<"u00E9", "t", "u00E9">> THEN TRUE
        ELSE IF Len(w) < 4 THEN FALSE
        ELSE IF EndsWith(w, <<"m", "e", "n", "t">>) THEN FALSE
        ELSE IF \E suf \in {<<"e">>, <<"e", "s">>, <<"e", "n", "t">>, <<"o", "n", "s">>, <<"e", "z">>} : EndsWith(w, suf) THEN TRUE
        ELSE w \in {<<"s", "u", "i", "s">>, <<"e", "s">>, <<"e", "s", "t">>, <<"s", "o", "m", "m", "e", "s">>, <<"u00EA", "t", "e", "s">>, <<"s", "o", "n", "t">>, <<"a", "i">>, <<"a", "s">>, <<"a">>,
                    <<"a", "v", "o", "n", "s">>, <<"a", "v", "e", "z">>, <<"o", "n", "t">>}

_is_fr_ambiguous_noun_verb_token(word) == Lower(StripOrEmpty(word)) = <<"u00E9", "t", "u00E9">>

_is_fr_common_adverb(word) ==
    Lower(StripOrEmpty(word)) \in
        {<<"t", "a", "r", "d">>, <<"t", "u00F4", "t">>, <<"i", "c", "i">>, <<"l", "u00E0">>, <<"h", "i", "e", "r">>, <<"d", "e", "m", "a", "i", "n">>, <<"a", "u", "j", "o", "u", "r", "d", "'", "h", "u", "i">>, <<"t", "o", "u", "j", "o", "u", "r", "s">>,
         <<"j", "a", "m", "a", "i", "s">>, <<"s", "o", "u", "v", "e", "n", "t">>, <<"p", "a", "r", "f", "o", "i", "s">>, <<"d", "u00E9", "j", "u00E0">>, <<"e", "n", "c", "o", "r", "e">>, <<"t", "r", "u00E8", "s">>, <<"t", "r", "o", "p">>, <<"a", "s", "s", "e", "z">>,
         <<"b", "i", "e", "n">>, <<"m", "a", "l">>, <<"v", "i", "t", "e">>}

_fr_default_lemma_for_ambiguous_token(word) ==
    IF Lower(StripOrEmpty(word)) = <<"u00E9", "t", "u00E9">> THEN <<"u00EA", "t", "r", "e">> ELSE <<>>

\* the singular candidate, Null when there is none
_fr_singular_candidate_for_plural_noun(word) ==
    LET w == StripOrEmpty(word)
        low == Lower(w)
    IN  IF w = <<>> THEN Null
        ELSE IF \E i \in 1..Len(w) : w[i] \in WhitespaceChars THEN Null
        ELSE IF EndsWith(low, <<"e", "a", "u", "x">>) /\ Len(w) > 4 THEN SubSeq(w, 1, Len(w) - 1)
        ELSE IF EndsWith(low, <<"s">>) /\ Len(w) > 3 THEN SubSeq(w, 1, Len(w) - 1)
        ELSE Null

_default_feminine_by_suffix(language, adjective) ==
    LET lang == Lower(StripOrEmpty(language))
        w == StripOrEmpty(adjective)
    IN  IF w = <<>> THEN <<>>
        ELSE IF lang = <<"f", "r">> THEN (IF EndsWith(Lower(w), <<"e">>) THEN w ELSE w \o <<"e">>)
        ELSE IF lang = <<"e", "s">> THEN (IF EndsWith(Lower(w), <<"a">>) THEN w ELSE w \o <<"a">>)
        ELSE <<>>

_accept_verb_phrase_correction(language, original_phrase, candidate) ==
    LET cand == Strip(candidate)
        orig == StripOrEmpty(original_phrase)
        rest == Strip(SubSeq(orig, 4, Len(orig)))
    IN  IF cand = <<>> THEN FALSE
        ELSE IF cand = orig THEN TRUE
        ELSE IF Lower(language) # <<"f", "r">> THEN FALSE
        ELSE /\ StartsWith(Lower(orig), <<"j", "e", " ">>)
             /\ _starts_with_french_elision_sound(rest)
             /\ cand \in {<<"j", "'">> \o rest, <<"j", "u2019">> \o rest}

\* ------------------------------------------------------------------------
\* The completion service as the callers see it.  A request is its kind and
\* the text it asks about; svc.garbled is the set of kinds the service
\* answers with text that holds no JSON object, svc.dictionary the
\* transcription the fallback dictionary lookup yields (Null for none),
\* svc.says_noun whether its POS reply names a noun whatever the word.
\* ------------------------------------------------------------------------

RequestKinds ==
    {"pos", "verb_check", "noun", "article_retry", "adjective", "other", "verb",
     "ipa", "verb_ipa", "phrase_translation", "phrase_ipa"}

KindKeys(kind) ==
    CASE kind = "pos" -> {"pos", "lemma"}
      [] kind = "verb_check" -> {"is_verb", "lemma"}
      [] kind = "noun" -> {"translation", "article", "base_article", "gender"}
      [] kind = "article_retry" -> {"article", "base_article", "gender"}
      [] kind = "adjective" -> {"translation", "feminine", "feminine_translation"}
      [] kind = "other" -> {"translation"}
      [] kind = "verb" -> {"tense", "infinitive_translation", "forms"}
      [] kind = "phrase_translation" -> {"translation"}
      [] OTHER -> {"phrase", "ipa"}

IpaAmi == <<"/", "l", "u203F", "a", "m", "i", "/">>

IpaVers == <<"/", "v", "u025B", "u0281", "/">>

Form(pronoun, phrase, translation) ==
    [pronoun |-> pronoun, phrase |-> phrase, translation |-> translation]

\* what the service knows about a text
Lexicon(text) ==
    CASE text = <<"a", "m", "i">> ->
            [NoFields EXCEPT !.pos = <<"n", "o", "u", "n">>, !.translation = <<"u", "n", " ", "a", "m", "i", "g", "o">>, !.article = <<"l", "'">>,
                             !.base_article = <<"l", "e">>, !.gender = <<"m">>]
      [] text = <<"a", "m", "i", "s">> -> [NoFields EXCEPT !.pos = <<"n", "o", "u", "n">>]
      [] text = <<"a", "n">> ->
            [NoFields EXCEPT !.pos = <<"n", "o", "u", "n">>, !.translation = <<"a", "u00F1", "o">>, !.article = <<"l", "'">>,
                             !.base_article = <<"l", "e">>, !.gender = <<"m">>]
      [] text = <<"l", "'", "a", "n">> -> [NoFields EXCEPT !.phrase = <<"l", "'", "a", "n">>, !.ipa = <<"/", "l", " ", "u203F", "u0251", "u0303", "/">>]
      [] text = <<"a", "m", "i", "e">> ->
            [NoFields EXCEPT !.pos = <<"n", "o", "u", "n">>, !.translation = <<"a", "m", "i", "g", "a">>, !.article = <<"l", "'">>,
                             !.base_article = <<"l", "a">>, !.gender = <<"f">>]
      [] text = <<"a", "m", "i", ";", "a", "m", "i", "e">> ->
            [NoFields EXCEPT !.pos = <<"n", "o", "u", "n">>, !.translation = <<"a", "m", "i", "g", "o", ";", " ", "a", "m", "i", "g", "a">>, !.article = <<"l", "'">>]
      [] text = <<"b", "e", "a", "u">> ->
            [NoFields EXCEPT !.pos = <<"a", "d", "j", "e", "c", "t", "i", "v", "e">>, !.translation = <<"b", "o", "n", "i", "t", "o">>,
                             !.feminine = <<"b", "e", "l", "l", "e">>, !.feminine_translation = <<"b", "o", "n", "i", "t", "a">>,
                             !.phrase = <<"b", "e", "a", "u">>, !.ipa = <<"/", "b", "o", "/">>]
      [] text = <<"b", "e", "l", "l", "e">> -> [NoFields EXCEPT !.phrase = <<"b", "e", "l", "l", "e">>, !.ipa = <<"/", "b", "u025B", "l", "/">>]
      [] text = <<"s", "o", "m", "m", "e", "s">> ->
            [NoFields EXCEPT !.pos = <<"v", "e", "r", "b">>, !.lemma = <<"u00EA", "t", "r", "e">>, !.tense = <<"p", "r", "e", "s", "e", "n", "t">>,
                             !.is_verb = TRUE, !.infinitive_translation = <<"s", "e", "r">>,
                             !.forms = <<Form(<<"n", "o", "u", "s">>, <<"n", "o", "u", "s", " ", "s", "o", "m", "m", "e", "s">>, <<"s", "o", "m", "o", "s">>)>>]
      [] text = <<"e", "s", "t">> ->
            [NoFields EXCEPT !.pos = <<"v", "e", "r", "b">>, !.lemma = <<"u00EA", "t", "r", "e">>, !.tense = <<"p", "r", "e", "s", "e", "n", "t">>, !.infinitive_translation = <<"s", "e", "r">>,
                             !.forms = <<Form(<<"i", "l">>, <<"i", "l", " ", "e", "s", "t">>, <<"u00E9", "l", " ", "e", "s">>), Form(<<"e", "l", "l", "e">>, <<"e", "l", "l", "e", " ", "e", "s", "t">>, <<"e", "l", "l", "a", " ", "e", "s">>),
                                         Form(<<"o", "n">>, <<"o", "n", " ", "e", "s", "t">>, <<>>)>>]
      [] text = <<"d", "u00E9", "m", "e", "n", "t">> ->
            [NoFields EXCEPT !.pos = <<"n", "o", "u", "n", "_", "v", "e", "r", "b">>, !.lemma = <<"d", "u00E9", "m", "e", "n", "t", "i", "r">>, !.tense = <<"p", "r", "e", "s", "e", "n", "t">>,
                             !.translation = <<"d", "e", "m", "e", "n", "t", "e">>, !.article = <<"l", "e">>, !.gender = <<"m">>, !.infinitive_translation = <<"d", "e", "s", "m", "e", "n", "t", "i", "r">>,
                             !.forms = <<Form(<<"i", "l">>, <<"i", "l", " ", "d", "u00E9", "m", "e", "n", "t">>, <<"u00E9", "l", " ", "d", "e", "s", "m", "i", "e", "n", "t", "e">>)>>]
      [] text = <<"i", "l", " ", "d", "u00E9", "m", "e", "n", "t">> -> [NoFields EXCEPT !.phrase = <<"i", "l", " ", "d", "u00E9", "m", "e", "n", "t">>, !.ipa = <<"/", "i", "l", " ", "d", "e", "m", "u0251", "u0303", "/">>]
      [] text = <<"v", "i", "t", "e">> -> [NoFields EXCEPT !.is_verb = TRUE, !.translation = <<"r", "u00E1", "p", "i", "d", "o">>]
      [] text = <<"l", "i", "v", "r", "e">> -> [NoFields EXCEPT !.pos = <<"n", "o", "u", "n">>, !.translation = <<"l", "i", "b", "r", "o">>]
      [] text = <<"p", "o", "m", "m", "e">> -> [NoFields EXCEPT !.pos = <<"n", "o", "u", "n">>, !.translation = <<"m", "a", "n", "z", "a", "n", "a">>, !.article = <<"u", "n", "e">>, !.gender = <<"f">>]
      [] text = <<"p", "a", "r", "l", "e">> ->
            [NoFields EXCEPT !.pos = <<"v", "e", "r", "b">>, !.tense = <<"p", "r", "e", "s", "e", "n", "t">>,
                             !.forms = <<Form(<<"j", "e">>, <<"j", "e", " ", "p", "a", "r", "l", "e">>, <<"h", "a", "b", "l", "o">>),
                                         Form(<<"t", "u">>, <<>>, <<"h", "a", "b", "l", "a", "s">>)>>]
      [] text = <<"n", "o", "u", "s", " ", "s", "o", "m", "m", "e", "s">> ->
            [NoFields EXCEPT !.phrase = <<"n", "o", "u", "s", " ", "s", "o", "m", "m", "e", "s">>, !.ipa = <<"/", "n", "u", " ", "s", "u0254", "m", "/">>,
                             !.translation = <<"s", "o", "m", "o", "s">>]
      [] text = <<"u00EA", "t", "e", "s">> ->
            [NoFields EXCEPT !.pos = <<"v", "e", "r", "b">>, !.lemma = <<"u00EA", "t", "r", "e">>, !.tense = <<"p", "r", "e", "s", "e", "n", "t">>,
                             !.forms = <<Form(<<"v", "o", "u", "s">>, <<"v", "o", "u", "s", " ", "u00EA", "t", "e", "s">>, <<"s", "o", "i", "s">>),
                                         Form(<<"v", "o", "u", "s", " ", "(", "p", "l", ".", ")">>, <<"v", "o", "u", "s", " ", "u00EA", "t", "e", "s">>, <<"s", "o", "n">>)>>]
      [] text = <<"v", "o", "u", "s", " ", "u00EA", "t", "e", "s">> ->
            [NoFields EXCEPT !.phrase = <<"v", "o", "u", "s", " ", "u00EA", "t", "e", "s">>, !.ipa = <<"/", "v", "u", " ", "z", "u203F", "u025B", "t", "/">>, !.translation = <<"s", "o", "i", "s">>]
      [] text = <<"u00EA", "t", "r", "e">> -> [NoFields EXCEPT !.phrase = <<"u00EA", "t", "r", "e">>, !.ipa = <<"/", "u025B", "t", "u0281", "/">>]
      [] text = <<"u00E9", "t", "u00E9">> ->
            [NoFields EXCEPT !.pos = <<"v", "e", "r", "b">>, !.is_verb = TRUE, !.translation = <<"v", "e", "r", "a", "n", "o">>, !.article = <<"l", "e">>,
                             !.gender = <<"m">>, !.tense = <<"p", "a", "r", "t", "i", "c", "i", "p", "e">>]
      [] text = <<"l", "'", "u00E9", "t", "u00E9">> -> [NoFields EXCEPT !.phrase = <<"l", "'", "u00E9", "t", "u00E9">>, !.ipa = <<"/", "l", "u203F", "e", "t", "e", "/">>]
      [] text = <<"t", "a", "r", "d">> ->
            [NoFields EXCEPT !.pos = <<"n", "o", "u", "n">>, !.translation = <<"t", "a", "r", "d", "e">>,
                             !.phrase = <<"t", "a", "r", "d">>, !.ipa = <<"/", "t", "a", "u0281", "/">>]
      [] text = <<"l", "'", "a", "m", "i">> -> [NoFields EXCEPT !.phrase = <<"l", "'", "a", "m", "i">>, !.ipa = IpaAmi]
      [] text = <<"l", "'", "a", "m", "i", "e">> -> [NoFields EXCEPT !.phrase = <<"l", "'", "a", "m", "i", "e">>, !.ipa = IpaAmi]
      [] text = <<"l", "'", "a", "m", "i", ";", "a", "m", "i", "e">> -> [NoFields EXCEPT !.phrase = <<"l", "'", "a", "m", "i">>, !.ipa = IpaAmi]
      [] text = <<"a", "m", "i", " ", "a", "m", "i", "e">> ->
            [NoFields EXCEPT !.translation = <<"a", "m", "i", "g", "o", " ", "a", "m", "i", "g", "a">>, !.ipa = <<"/", "a", "m", "i", " ", "a", "m", "i", "/">>]
      [] text = <<"a", "m", "i", " ", "a", "m", "i", "s">> ->
            [NoFields EXCEPT !.translation = <<"a", "m", "i", "g", "o", " ", "a", "m", "i", "g", "o", "s">>, !.ipa = <<"/", "a", "m", "i", " ", "a", "m", "i", "/">>]
      [] text = <<"v", "e", "r", "s">> ->
            [NoFields EXCEPT !.pos = <<"o", "t", "h", "e", "r">>, !.translation = <<"h", "a", "c", "i", "a">>,
                             !.phrase = <<"v", "e", "r", "s">>, !.ipa = IpaVers]
      [] text = <<"v", "e", "r", "t">> ->
            [NoFields EXCEPT !.pos = <<"a", "d", "j", "e", "c", "t", "i", "v", "e">>, !.translation = <<"v", "e", "r", "d", "e">>,
                             !.feminine = <<"v", "e", "r", "t", "e">>, !.phrase = <<"v", "e", "r", "t">>, !.ipa = IpaVers]
      [] text = <<"v", "e", "r", "s", ";", "v", "e", "r", "t">> ->
            [NoFields EXCEPT !.pos = <<"o", "t", "h", "e", "r">>, !.translation = <<"h", "a", "c", "i", "a", ";", " ", "v", "e", "r", "d", "e">>,
                             !.phrase = <<"v", "e", "r", "s", ";", "v", "e", "r", "t">>, !.ipa = IpaVers]
      [] text = <<"v", "e", "r", "s", " ", "v", "e", "r", "t">> ->
            [NoFields EXCEPT !.translation = <<"h", "a", "c", "i", "a", " ", "v", "e", "r", "d", "e">>, !.ipa = <<"/", "v", "u025B", "u0281", " ", "v", "u025B", "u0281", "/">>]
      [] OTHER -> NoFields

\* the content of the reply to one request
Reply(svc, kind, text) ==
    IF kind \in svc.garbled THEN [json |-> FALSE, obj |-> NoFields, text |-> <<"?">>]
    ELSE [json |-> TRUE, text |-> <<>>,
          obj |-> [f \in DOMAIN NoFields |->
                     IF kind = "pos" /\ f = "pos" /\ svc.says_noun THEN <<"n", "o", "u", "n">>
                     ELSE IF f \in KindKeys(kind) THEN Lexicon(text)[f] ELSE NoFields[f]]]

\* ------------------------------------------------------------------------
\* prepare_word_actions, single-token path, stage by stage.  Every stage
\* returns its locals together with n, the number of completion-service
\* requests it issued.
\* ------------------------------------------------------------------------

\* the text the single-token pipeline works on (normalisation of the input)
SingleTokenText(language, palabra) ==
    LET clean == _normalize_user_text(language, palabra)
    IN  IF clean = <<>> THEN palabra
        ELSE IF Lower(language) = <<"f", "r">> THEN _fr_drop_contraction_prefix(clean)
        ELSE clean

\* whether the input takes the phrase path
IsPhraseInput(language, palabra) ==
    LET clean == _normalize_user_text(language, palabra)
    IN  /\ clean # <<>>
        /\ \E i \in 1..Len(clean) : clean[i] \in WhitespaceChars
        /\ Len(Words(clean)) >= 2

\* the classification prepare_word_actions works with, after n requests
Classification(p, lemma, n) ==
    [is_noun |-> p.is_noun, is_verb |-> p.is_verb, is_adjective |-> p.is_adjective,
     pos |-> p.pos, lemma |-> lemma,
     is_noun_and_verb |-> p.is_noun /\ p.is_verb,
     verb_infinitive |-> IF p.is_verb THEN lemma ELSE <<>>,
     n |-> n]

\* 1a) POS classification, ambiguous-token override, fallback verb check,
\*     common-adverb override, from the parsed replies to the POS request and
\*     to the verb check
\* a classifier that trusts the primary pass and never asks the verb check
ClassifyRepliesPrimaryOnly(language, palabra, parsed_pos, parsed_check) ==
    Classification(_parse_pos_field(IF parsed_pos.pos # Null THEN parsed_pos.pos
                                    ELSE parsed_pos.part_of_speech),
                   StripOrEmpty(parsed_pos.lemma), 1)

ClassifyReplies(language, palabra, parsed_pos, parsed_check) ==
    LET fr == Lower(language) = <<"f", "r">>
        pos_field == IF parsed_pos.pos # Null THEN parsed_pos.pos ELSE parsed_pos.part_of_speech
        lemma0 == StripOrEmpty(parsed_pos.lemma)
        p0 == _parse_pos_field(pos_field)
        force == fr /\ _is_fr_ambiguous_noun_verb_token(palabra) /\ p0.is_verb /\ ~p0.is_noun
        p1 == IF force THEN [p0 EXCEPT !.is_noun = TRUE, !.pos = <<"n", "o", "u", "n", "_", "v", "e", "r", "b">>] ELSE p0
        lemma1 == IF force /\ lemma0 = <<>>
                  THEN _fr_default_lemma_for_ambiguous_token(palabra) ELSE lemma0
        fallback_trigger == /\ fr /\ p1.is_noun /\ ~p1.is_verb
                            /\ _looks_like_fr_conjugated_verb_form(palabra)
        hit == fallback_trigger /\ parsed_check.is_verb
        p2 == IF ~hit THEN p1
              ELSE IF _is_fr_ambiguous_noun_verb_token(palabra)
              THEN [p1 EXCEPT !.is_verb = TRUE, !.is_noun = TRUE, !.pos = <<"n", "o", "u", "n", "_", "v", "e", "r", "b">>]
              ELSE [p1 EXCEPT !.is_verb = TRUE, !.is_noun = FALSE, !.pos = <<"v", "e", "r", "b">>]
        lemma2 == IF hit THEN Strip(Or(Or(parsed_check.lemma, lemma1), <<>>)) ELSE lemma1
        adverb == fr /\ _is_fr_common_adverb(palabra)
        p3 == IF adverb
              THEN [is_noun |-> FALSE, is_verb |-> FALSE, is_adjective |-> FALSE, pos |-> <<"o", "t", "h", "e", "r">>]
              ELSE p2
        lemma3 == IF adverb THEN <<>> ELSE lemma2
    IN  Classification(p3, lemma3, IF fallback_trigger THEN 2 ELSE 1)

ClassifyToken(svc, language, palabra) ==
    ClassifyReplies(language, palabra,
                    _extract_json_from_text(Reply(svc, "pos", palabra)).obj,
                    _extract_json_from_text(Reply(svc, "verb_check", palabra)).obj)

\* FR nouns: store the singular
StoredToken(language, c, palabra) ==
    LET cand == _fr_singular_candidate_for_plural_noun(palabra)
    IN  IF /\ Lower(StripOrEmpty(language)) = <<"f", "r">>
           /\ c.is_noun /\ ~c.is_verb /\ ~c.is_noun_and_verb
           /\ cand # Null /\ cand # <<>> /\ cand # Strip(palabra)
        THEN cand ELSE palabra

\* translation, article, gender and classification before the detail stage
NoDetails(c) ==
    [translation |-> <<>>, article |-> <<>>, gender_fr |-> <<>>, pos |-> c.pos,
     is_noun |-> c.is_noun, is_adjective |-> c.is_adjective, extra_entries |-> <<>>, n |-> 0]

\* 1b-noun) translation + article, elision, article retry, "-mente" override,
\*     from the parsed replies to the noun request and to the article retry
NounReplies(language, c, palabra, parsed_noun, parsed_retry) ==
    LET fr == Lower(language) = <<"f", "r">>
        o == parsed_noun.obj
        translation == _normalize_spanish_noun_translation(StripOrEmpty(o.translation))
        raw_article == OrEmpty(o.article)
        raw_article_norm == Lower(Strip(raw_article))
        article0 == _normalize_article(raw_article, language)
        base_article_fr == _normalize_fr_base_article(Or(o.base_article, o.article_base))
        gender_from_base == IF base_article_fr = <<"l", "e">> THEN <<"m">>
                            ELSE IF base_article_fr = <<"l", "a">> THEN <<"f">> ELSE <<>>
        g0 == Or(gender_from_base, _normalize_fr_gender(Or(o.gender, o.genre)))
        g1 == IF ~fr THEN <<>>
              ELSE IF g0 = <<>> /\ raw_article_norm \in {<<"l", "e">>, <<"l", "a">>}
              THEN (IF raw_article_norm = <<"l", "e">> THEN <<"m">> ELSE <<"f">>)
              ELSE g0
        art == Lower(Strip(article0))
        lela == fr /\ art \in {<<"l", "e">>, <<"l", "a">>}
        article1 == IF lela THEN art \o <<" ">> ELSE article0
        g2 == IF lela /\ g1 = <<>> THEN (IF art = <<"l", "e">> THEN <<"m">> ELSE <<"f">>) ELSE g1
        article2 == IF lela /\ _starts_with_french_elision_sound(palabra) THEN <<"l", "'">> ELSE article1
        retry == fr /\ c.is_noun /\ Strip(article2) = <<>>
        r == parsed_retry.obj
        useRetry == retry /\ Truthy(parsed_retry)
        article3r == _normalize_article(OrEmpty(r.article), language)
        base_retry == _normalize_fr_base_article(Or(r.base_article, r.article_base))
        gender_from_base_retry == IF base_retry = <<"l", "e">> THEN <<"m">>
                                  ELSE IF base_retry = <<"l", "a">> THEN <<"f">> ELSE <<>>
        gender_retry == _normalize_fr_gender(Or(r.gender, r.genre))
        article3 == IF ~useRetry THEN article2
                    ELSE IF Lower(Strip(article3r)) \in {<<"l", "e">>, <<"l", "a">>}
                            /\ _starts_with_french_elision_sound(palabra)
                    THEN <<"l", "'">> ELSE article3r
        g3 == IF useRetry THEN Or(gender_from_base_retry, Or(gender_retry, g2)) ELSE g2
        mente == /\ fr
                 /\ EndsWith(Lower(Strip(translation)), <<"m", "e", "n", "t", "e">>)
                 /\ Lower(Strip(article3)) \in {<<"l", "e">>, <<"l", "a">>, <<"l", "e", "s">>, <<"l", "'">>}
    IN  IF ~Truthy(parsed_noun)
        THEN [NoDetails(c) EXCEPT !.n = 1]
        ELSE [translation |-> translation,
              article |-> IF mente THEN <<>> ELSE article3,
              gender_fr |-> IF mente THEN <<>> ELSE g3,
              pos |-> IF mente THEN <<"o", "t", "h", "e", "r">> ELSE c.pos,
              is_noun |-> IF mente THEN FALSE ELSE c.is_noun,
              is_adjective |-> IF mente THEN FALSE ELSE c.is_adjective,
              extra_entries |-> <<>>,
              n |-> IF retry THEN 2 ELSE 1]

NounDetails(svc, language, c, palabra) ==
    NounReplies(language, c, palabra,
                _extract_json_from_text(Reply(svc, "noun", palabra)),
                _extract_json_from_text(Reply(svc, "article_retry", palabra)))

\* 1b-adjective) translation + irregular feminine as an extra entry
AdjectiveDetails(svc, language, c, palabra) ==
    LET o == _extract_json_from_text(Reply(svc, "adjective", palabra)).obj
        translation == _normalize_spanish_noun_translation(StripOrEmpty(o.translation))
        feminine == StripOrEmpty(o.feminine)
        feminine_translation ==
            _normalize_spanish_noun_translation(StripOrEmpty(o.feminine_translation))
        default_fem == _default_feminine_by_suffix(language, palabra)
        fem_norm == IF feminine # <<>> THEN _normalize_user_text(language, feminine) ELSE <<>>
        tr_f == Or(feminine_translation, translation)
        add == /\ fem_norm # <<>>
               /\ fem_norm # _normalize_user_text(language, palabra)
               /\ default_fem # <<>>
               /\ _normalize_user_text(language, default_fem) # fem_norm
    IN  [NoDetails(c) EXCEPT
            !.translation = translation,
            !.extra_entries =
                IF add
                THEN <<[word |-> fem_norm,
                        association |-> IF tr_f # <<>> THEN fem_norm \o <<",", " ">> \o tr_f ELSE Null,
                        ipa |-> Null]>>
                ELSE <<>>,
            !.n = 1]

\* 1b-other) translation only
OtherDetails(svc, c, palabra) ==
    [NoDetails(c) EXCEPT
        !.translation =
            _normalize_spanish_noun_translation(
                StripOrEmpty(_extract_json_from_text(Reply(svc, "other", palabra)).obj.translation)),
        !.n = 1]

VerbEntry(pronoun, phrase, translation) ==
    [pronoun |-> pronoun, phrase |-> phrase, translation |-> translation,
     ipa |-> <<>>, association |-> <<>>]

\* a verb branch that gives up, with no entry at all, when the paradigm reply
\* holds no JSON object
VerbParadigmNoFallback(svc, c, palabra, expand_verbs) ==
    LET parsed_verb == _extract_json_from_text(Reply(svc, "verb", palabra))
        o == parsed_verb.obj
        forms == [i \in 1..Len(o.forms) |->
                    VerbEntry(StripOrEmpty(o.forms[i].pronoun), StripOrEmpty(o.forms[i].phrase),
                              StripOrEmpty(o.forms[i].translation))]
    IN  [verb_entries |-> IF c.is_verb /\ Truthy(parsed_verb)
                          THEN SelectSeq(forms, LAMBDA e : e.phrase # <<>>) ELSE <<>>,
         tense |-> <<>>,
         n |-> IF c.is_verb /\ expand_verbs THEN 1 ELSE 0]

\* a verb branch that puts the infinitive entry ahead of the paradigm forms
VerbParadigmInfinitiveFirst(svc, c, palabra, expand_verbs) ==
    LET parsed_verb == _extract_json_from_text(Reply(svc, "verb", palabra))
        o == parsed_verb.obj
        ok == Truthy(parsed_verb)
        forms == [i \in 1..Len(o.forms) |->
                    VerbEntry(StripOrEmpty(o.forms[i].pronoun), StripOrEmpty(o.forms[i].phrase),
                              StripOrEmpty(o.forms[i].translation))]
        listed == IF ok THEN SelectSeq(forms, LAMBDA e : e.phrase # <<>>) ELSE <<>>
        inf == Strip(c.verb_infinitive)
        withInf == IF inf # <<>>
                   THEN <<VerbEntry(<<"i", "n", "f", "i", "n", "i", "t", "i", "v", "e">>, inf, <<"(", "i", "n", "f", "i", "n", "i", "t", "i", "v", "o", ")">>)>> \o listed
                   ELSE listed
    IN  [verb_entries |-> IF ~c.is_verb THEN <<>>
                          ELSE IF withInf = <<>> THEN <<VerbEntry(<<>>, palabra, <<>>)>>
                          ELSE withInf,
         tense |-> IF ok THEN StripOrEmpty(o.tense) ELSE <<>>,
         n |-> IF c.is_verb /\ expand_verbs THEN 1 ELSE 0]

\* the slot an ambiguous subject pronoun belongs to ("" for any other pronoun)
PronounGroup(lang, pron) ==
    IF lang = <<"f", "r">> /\ pron \in {<<"i", "l">>, <<"e", "l", "l", "e">>, <<"o", "n">>} THEN <<"i", "l", "/", "e", "l", "l", "e", "/", "o", "n">>
    ELSE IF lang = <<"f", "r">> /\ pron \in {<<"i", "l", "s">>, <<"e", "l", "l", "e", "s">>} THEN <<"i", "l", "s", "/", "e", "l", "l", "e", "s">>
    ELSE IF lang = <<"d", "e">> /\ pron \in {<<"e", "r">>, <<"s", "i", "e">>, <<"m", "a", "n">>} THEN <<"e", "r", "/", "s", "i", "e", "/", "m", "a", "n">>
    ELSE <<>>

\* the (pronoun or group, verb-form text) key under which an entry is merged
PronounKey(lang, entry) ==
    LET phrase == StripOrEmpty(entry.phrase)
        parts == SplitOnce(phrase, <<" ">>)
        pron == Lower(Strip(parts[1]))
        rest == Strip(parts[2])
        group == PronounGroup(lang, pron)
    IN  IF IndexOf(phrase, <<" ">>) = 0 THEN [grouped |-> FALSE, key |-> <<<<>>, phrase>>]
        ELSE IF group = <<>> THEN [grouped |-> FALSE, key |-> <<pron, rest>>]
        ELSE [grouped |-> TRUE, key |-> <<group, rest>>]

\* merge of the entries left of position n+1, in first-seen order
RECURSIVE MergedPronouns(_, _, _)
MergedPronouns(lang, verb_entries, n) ==
    IF n = 0 THEN <<>>
    ELSE LET merged == MergedPronouns(lang, verb_entries, n - 1)
             entry == verb_entries[n]
             k == PronounKey(lang, entry)
             seen == {i \in 1..Len(merged) : merged[i].key = k.key}
         IN  IF StripOrEmpty(entry.phrase) = <<>> THEN merged
             ELSE IF seen = {}
             THEN Append(merged,
                         [key |-> k.key,
                          entry |-> IF k.grouped
                                    THEN [entry EXCEPT !.pronoun = k.key[1],
                                                       !.phrase = k.key[1] \o <<" ">> \o k.key[2],
                                                       !.ipa = <<>>]
                                    ELSE entry])
             ELSE IF k.grouped
             THEN [i \in 1..Len(merged) |->
                     IF i \in seen /\ StripOrEmpty(merged[i].entry.translation) = <<>>
                     THEN [merged[i] EXCEPT !.entry.translation = StripOrEmpty(entry.translation)]
                     ELSE merged[i]]
             ELSE merged

_group_ambiguous_pronouns(language, verb_entries) ==
    LET lang == Lower(OrEmpty(language))
        merged == MergedPronouns(lang, verb_entries, Len(verb_entries))
    IN  IF lang \notin {<<"f", "r">>, <<"d", "e">>} \/ verb_entries = <<>> THEN verb_entries
        ELSE [i \in 1..Len(merged) |-> merged[i].entry]

\* a verb branch that merges the French ambiguous-pronoun groups of the
\* paradigm before the infinitive entry is appended
VerbParadigmGrouped(svc, c, palabra, expand_verbs) ==
    LET parsed_verb == _extract_json_from_text(Reply(svc, "verb", palabra))
        o == parsed_verb.obj
        ok == Truthy(parsed_verb)
        forms == [i \in 1..Len(o.forms) |->
                    VerbEntry(StripOrEmpty(o.forms[i].pronoun), StripOrEmpty(o.forms[i].phrase),
                              StripOrEmpty(o.forms[i].translation))]
        listed == IF ok
                  THEN _group_ambiguous_pronouns(<<"f", "r">>, SelectSeq(forms, LAMBDA e : e.phrase # <<>>))
                  ELSE <<>>
        verb_inf_translation == IF ok THEN StripOrEmpty(o.infinitive_translation) ELSE <<>>
        inf == Strip(c.verb_infinitive)
        tagged_tr == IF verb_inf_translation # <<>>
                     THEN verb_inf_translation \o <<" ", "(", "i", "n", "f", "i", "n", "i", "t", "i", "v", "o", ")">> ELSE <<"(", "i", "n", "f", "i", "n", "i", "t", "i", "v", "o", ")">>
        withInf == IF inf # <<>> THEN Append(listed, VerbEntry(<<"i", "n", "f", "i", "n", "i", "t", "i", "v", "e">>, inf, tagged_tr))
                   ELSE listed
    IN  IF ~c.is_verb THEN [verb_entries |-> <<>>, tense |-> <<>>, n |-> 0]
        ELSE IF ~expand_verbs
        THEN [verb_entries |-> <<VerbEntry(<<>>, palabra, <<>>)>>, tense |-> <<>>, n |-> 0]
        ELSE [verb_entries |-> IF withInf = <<>> THEN <<VerbEntry(<<>>, palabra, <<>>)>>
                               ELSE withInf,
              tense |-> IF ok THEN StripOrEmpty(o.tense) ELSE <<>>,
              n |-> 1]

\* 1b-verb) the paradigm, the infinitive entry and the single-entry fallback
VerbParadigm(svc, c, palabra, expand_verbs) ==
    LET parsed_verb == _extract_json_from_text(Reply(svc, "verb", palabra))
        o == parsed_verb.obj
        ok == Truthy(parsed_verb)
        forms == [i \in 1..Len(o.forms) |->
                    VerbEntry(StripOrEmpty(o.forms[i].pronoun), StripOrEmpty(o.forms[i].phrase),
                              StripOrEmpty(o.forms[i].translation))]
        listed == IF ok THEN SelectSeq(forms, LAMBDA e : e.phrase # <<>>) ELSE <<>>
        verb_inf_translation == IF ok THEN StripOrEmpty(o.infinitive_translation) ELSE <<>>
        inf == Strip(c.verb_infinitive)
        tagged_tr == IF verb_inf_translation # <<>>
                     THEN verb_inf_translation \o <<" ", "(", "i", "n", "f", "i", "n", "i", "t", "i", "v", "o", ")">> ELSE <<"(", "i", "n", "f", "i", "n", "i", "t", "i", "v", "o", ")">>
        withInf == IF inf # <<>> THEN Append(listed, VerbEntry(<<"i", "n", "f", "i", "n", "i", "t", "i", "v", "e">>, inf, tagged_tr))
                   ELSE listed
    IN  IF ~c.is_verb THEN [verb_entries |-> <<>>, tense |-> <<>>, n |-> 0]
        ELSE IF ~expand_verbs
        THEN [verb_entries |-> <<VerbEntry(<<>>, palabra, <<>>)>>, tense |-> <<>>, n |-> 0]
        ELSE [verb_entries |-> IF withInf = <<>> THEN <<VerbEntry(<<>>, palabra, <<>>)>>
                               ELSE withInf,
              tense |-> IF ok THEN StripOrEmpty(o.tense) ELSE <<>>,
              n |-> 1]

\* the transcription read from one reply to an IPA request
IpaOfReply(raw) ==
    LET parsed2 == _extract_json_from_text(raw)
    IN  IF Truthy(parsed2)
        THEN (IF StripOrEmpty(parsed2.obj.ipa) # <<>>
              THEN _simple_ipa_from_text(parsed2.obj.ipa) ELSE Null)
        ELSE _simple_ipa_from_text(raw.text)

_get_phrase_translation(svc, language, phrase) ==
    StripOrEmpty(_extract_json_from_text(Reply(svc, "phrase_translation", phrase)).obj.translation)

\* the sanity check of a transcription: wrapped in slashes, not empty inside,
\* no "//", no tab or newline, no space next to the liaison marker, no
\* doubled marker
_ipa_is_reasonably_well_formed(ipa) ==
    LET s == StripOrEmpty(ipa)
        inside == Strip(SubSeq(s, 2, Len(s) - 1))
    IN  /\ ipa # Null /\ ipa # <<>>
        /\ ~Contains(s, <<"/", "/">>)
        /\ StartsWith(s, <<"/">>) /\ EndsWith(s, <<"/">>)
        /\ inside # <<>>
        /\ \A i \in 1..Len(inside) : inside[i] \notin {"\n", "\r", "\t"}
        /\ ~Contains(inside, <<" ", "u203F">>)
        /\ ~Contains(inside, <<"u203F", " ">>)
        /\ ~Contains(inside, <<"u203F", "u203F">>)

\* re.split(r"[ ‿]+", inside), empty segments dropped
IpaSegments(ipa) ==
    LET s == StripOrEmpty(ipa)
        inside == Strip(SubSeq(s, 2, Len(s) - 1))
    IN  SelectSeq(SplitChars(inside, {" ", "u203F"}), LAMBDA seg : seg # <<>>)

_ipa_is_reasonably_well_formed_for_phrase(language, phrase, ipa) ==
    LET lang == Strip(Lower(OrEmpty(language)))
        tokens == _tokenize_phrase(lang, OrEmpty(phrase))
    IN  IF ~_ipa_is_reasonably_well_formed(ipa) THEN FALSE
        ELSE IF lang # <<"f", "r">> THEN TRUE
        ELSE IF Len(tokens) <= 1 THEN TRUE
        ELSE Len(IpaSegments(ipa)) = Len(tokens)

\* a phrase transcription that is kept only when it passes the phrase-aware
\* check
_get_phrase_ipa_checked(svc, language, phrase) ==
    LET raw == Reply(svc, "phrase_ipa", phrase)
        parsed == _extract_json_from_text(raw)
        ipa == IF Truthy(parsed) /\ StripOrEmpty(parsed.obj.ipa) # <<>>
               THEN _simple_ipa_from_text(parsed.obj.ipa)
               ELSE _simple_ipa_from_text(raw.text)
    IN  IF _ipa_is_reasonably_well_formed_for_phrase(language, phrase, ipa) THEN ipa ELSE Null

_get_phrase_ipa(svc, language, phrase) ==
    LET raw == Reply(svc, "phrase_ipa", phrase)
        parsed == _extract_json_from_text(raw)
    IN  IF Truthy(parsed) /\ StripOrEmpty(parsed.obj.ipa) # <<>>
        THEN _simple_ipa_from_text(parsed.obj.ipa)
        ELSE _simple_ipa_from_text(raw.text)

\* 2) IPA of the stored phrase (article + noun), with the accepted phrase correction
WordIpa(svc, language, article, gender_fr, palabra) ==
    LET phrase0 == _build_phrase(article, palabra)
        gender == IF Lower(language) = <<"f", "r">> THEN gender_fr ELSE <<>>
        raw == Reply(svc, "ipa", phrase0)
        parsed2 == _extract_json_from_text(raw)
        candidate_phrase == StripOrEmpty(parsed2.obj.phrase)
        corrected == /\ Truthy(parsed2)
                     /\ candidate_phrase # <<>>
                     /\ _accept_phrase_correction(language, phrase0, article, palabra,
                                                  candidate_phrase)
        phrase_for_ipa == IF corrected THEN candidate_phrase ELSE phrase0
    IN  [phrase_for_ipa |-> phrase_for_ipa,
         phrase_for_storage |-> _maybe_append_fr_gender_marker(language, phrase_for_ipa, gender),
         ipa_word |-> IpaOfReply(raw)]

\* IPA of one verb entry, with the accepted phrase correction
VerbEntryIpa(svc, language, entry) ==
    LET phrase0 == StripOrEmpty(entry.phrase)
        raw == Reply(svc, "verb_ipa", phrase0)
        parsed2 == _extract_json_from_text(raw)
        candidate_phrase == StripOrEmpty(parsed2.obj.phrase)
        corrected == /\ Truthy(parsed2)
                     /\ candidate_phrase # <<>>
                     /\ _accept_verb_phrase_correction(language, phrase0, candidate_phrase)
        entry_ipa == IpaOfReply(raw)
    IN  IF phrase0 = <<>> THEN entry
        ELSE [entry EXCEPT !.phrase = IF corrected THEN candidate_phrase ELSE phrase0,
                           !.ipa = IF entry_ipa = Null THEN <<>> ELSE entry_ipa]

\* [A-Za-z_][A-Za-z0-9_]*
IsSimpleIdentifier(s) ==
    /\ s # <<>>
    /\ IsLetter(s[1]) \/ s[1] = "_"
    /\ \A i \in 2..Len(s) :
          \/ IsLetter(s[i])
          \/ s[i] \in {"0", "1", "2", "3", "4", "5", "6", "7", "8", "9"}
          \/ s[i] = "_"

\* re.fullmatch(r"[A-Za-z_][A-Za-z0-9_]*(?:\.[A-Za-z_][A-Za-z0-9_]*)?", name)
IsValidTableIdentifier(name) ==
    LET parts == SplitChars(name, {"."})
    IN  Len(parts) \in {1, 2} /\ \A i \in 1..Len(parts) : IsSimpleIdentifier(parts[i])

DefaultRejectedTable == <<"p", "a", "l", "a", "b", "r", "a", "s", "_", "r", "e", "c", "h", "a", "z", "a", "d", "a", "s">>

\* a resolution that lets a missing user identity through
ResolveWithoutUserCheck(user_id, rejected_words_table, language) ==
    LET table == StripOrEmpty(rejected_words_table)
    IN  [error |-> <<>>,
         user_id |-> user_id,
         table |-> IF table = <<>> THEN DefaultRejectedTable ELSE table,
         language_norm |-> Lower(StripOrEmpty(language))]

_resolve_rejected_words_config(user_id, rejected_words_table, language) ==
    LET table == StripOrEmpty(rejected_words_table)
    IN  [error |-> IF user_id = Null
                   THEN <<"u", "s", "e", "r", "_", "i", "d", " ", "i", "s", " ", "r", "e", "q", "u", "i", "r", "e", "d", " ", "t", "o", " ", "e", "n", "f", "o", "r", "c", "e", " ", "r", "e", "j", "e", "c", "t", "e", "d", "-", "w", "o", "r", "d", "s", " ", "v", "a", "l", "i", "d", "a", "t", "i", "o", "n">> ELSE <<>>,
         user_id |-> user_id,
         table |-> IF table = <<>> THEN DefaultRejectedTable ELSE table,
         language_norm |-> Lower(StripOrEmpty(language))]

\* one (sql, params) pair; entry tells which compiled token (0: the phrase) it came from
Query(sql, params, entry) == [sql |-> sql, params |-> params, entry |-> entry]

\* an insert that never carries the registry guard
InsertQueryUnguarded(reject_enabled, table, word, association, list_id, ipa, user_id, lang, entry) ==
    Query(InsertPlainSql, <<word, association, list_id, ipa>>, entry)

InsertQuery(reject_enabled, table, word, association, list_id, ipa, user_id, lang, entry) ==
    IF reject_enabled
    THEN Query(InsertGuardedSql(table), <<word, association, list_id, ipa, user_id, lang, word>>,
               entry)
    ELSE Query(InsertPlainSql, <<word, association, list_id, ipa>>, entry)

UpdateIpaQuery(reject_enabled, table, word, list_id, ipa, user_id, lang, entry) ==
    IF reject_enabled
    THEN Query(UpdateIpaSql(TRUE, table), <<ipa, word, list_id, user_id, lang, word>>, entry)
    ELSE Query(UpdateIpaSql(FALSE, table), <<ipa, word, list_id>>, entry)

UpdateAssocQuery(sql, reject_enabled, word, list_id, association, user_id, lang, entry) ==
    IF reject_enabled
    THEN Query(sql, <<association, word, list_id, user_id, lang, word>>, entry)
    ELSE Query(sql, <<association, word, list_id>>, entry)

_append_homophone_link_queries(env_link, list_id, word, ipa_word, entry) ==
    LET ipa == StripOrEmpty(ipa_word)
    IN  IF ipa_word = Null \/ ipa_word = <<>> THEN <<>>
        ELSE IF ~_should_link_homophones_for_word(env_link, word) THEN <<>>
        ELSE IF ipa = <<>> THEN <<>>
        ELSE <<Query(LinkSelfSql, <<list_id, word, ipa>>, entry),
               Query(LinkOthersSql, <<word, word, word, list_id, ipa, word, word>>, entry)>>

\* the statements of a noun-like row with the association update emitted
\* ahead of the IPA update
WordRowQueriesAssocFirst(env_link, reject_enabled, table, palabra, association, list_id, ipa_word, user_id, lang, extra_entries, entry) ==
    <<InsertQuery(reject_enabled, table, palabra, association, list_id, ipa_word, user_id,
                  lang, entry)>>
    \o [i \in 1..Len(extra_entries) |->
            InsertQuery(reject_enabled, table, extra_entries[i].word,
                        extra_entries[i].association, list_id, extra_entries[i].ipa,
                        user_id, lang, entry)]
    \o (IF association # Null /\ association # <<>>
        THEN <<UpdateAssocQuery(UpdateAssocSql(reject_enabled, table), reject_enabled, palabra,
                                list_id, association, user_id, lang, entry)>>
        ELSE <<>>)
    \o (IF ipa_word # Null /\ ipa_word # <<>>
        THEN <<UpdateIpaQuery(reject_enabled, table, palabra, list_id, ipa_word, user_id,
                              lang, entry)>>
        ELSE <<>>)
    \o _append_homophone_link_queries(env_link, list_id, palabra, ipa_word, entry)

\* insert, IPA update, association update and link statements of a noun-like row
WordRowQueries(env_link, reject_enabled, table, palabra, association, list_id, ipa_word, user_id, lang, extra_entries, entry) ==
    <<InsertQuery(reject_enabled, table, palabra, association, list_id, ipa_word, user_id,
                  lang, entry)>>
    \o [i \in 1..Len(extra_entries) |->
            InsertQuery(reject_enabled, table, extra_entries[i].word,
                        extra_entries[i].association, list_id, extra_entries[i].ipa,
                        user_id, lang, entry)]
    \o (IF ipa_word # Null /\ ipa_word # <<>>
        THEN <<UpdateIpaQuery(reject_enabled, table, palabra, list_id, ipa_word, user_id,
                              lang, entry)>>
        ELSE <<>>)
    \o (IF association # Null /\ association # <<>>
        THEN <<UpdateAssocQuery(UpdateAssocSql(reject_enabled, table), reject_enabled, palabra,
                                list_id, association, user_id, lang, entry)>>
        ELSE <<>>)
    \o _append_homophone_link_queries(env_link, list_id, palabra, ipa_word, entry)

\* one insert per pronoun phrase
VerbRowQueries(reject_enabled, table, verb_entries, list_id, user_id, lang, entry) ==
    LET rows == SelectSeq(verb_entries, LAMBDA e : Strip(e.phrase) # <<>>)
    IN  [i \in 1..Len(rows) |->
            InsertQuery(reject_enabled, table, Strip(rows[i].phrase),
                        IF Strip(rows[i].association) = <<>> THEN Null
                        ELSE Strip(rows[i].association),
                        list_id,
                        IF Strip(rows[i].ipa) = <<>> THEN Null ELSE Strip(rows[i].ipa),
                        user_id, lang, entry)]

NoClassification ==
    [is_noun |-> FALSE, is_verb |-> FALSE, is_adjective |-> FALSE, pos |-> <<>>,
     lemma |-> <<>>, is_noun_and_verb |-> FALSE, verb_infinitive |-> <<>>, n |-> 0]

NoActions ==
    [word |-> <<>>, list_id |-> 0, pos |-> <<>>, is_verb |-> FALSE, is_noun |-> FALSE,
     is_noun_and_verb |-> FALSE, is_phrase |-> FALSE, entries |-> <<>>,
     association |-> Null, ipa_word |-> Null, queries |-> <<>>]

\* what a call of prepare_word_actions comes to: the ActionSet, or the
\* message of the error it raised, and the number of completion-service
\* requests issued on the way
Raised(message, n) == [error |-> message, requests |-> n, actions |-> NoActions]

Returned(actions, n) == [error |-> <<>>, requests |-> n, actions |-> actions]

\* translation, article, gender and the classification after the detail stage
TokenDetails(svc, language, c, palabra, has_key) ==
    IF ~has_key THEN NoDetails(c)
    ELSE IF c.is_noun THEN NounDetails(svc, language, c, palabra)
    ELSE IF c.is_adjective THEN AdjectiveDetails(svc, language, c, palabra)
    ELSE IF ~c.is_verb THEN OtherDetails(svc, c, palabra)
    ELSE NoDetails(c)

\* 3) the statements and the ActionSet of one token, from its classification c,
\*    details d, transcriptions (w, extra_entries, entries_ipa) and the n
\*    requests issued for them
PrepareStatements(env_link, palabra, list_id, user_id, cfg, svc, c, d, w, extra_entries, entries_ipa, n, entry) ==
    LET is_verb == c.is_verb
        is_noun_and_verb == c.is_noun_and_verb
        \* fallback IPA via the dictionary lookup
        ipa1 == IF (w.ipa_word = Null \/ w.ipa_word = <<>>) /\ ~is_verb /\ ~is_noun_and_verb
                THEN svc.dictionary ELSE w.ipa_word
        association1 == IF (~is_verb \/ is_noun_and_verb) /\ d.translation # <<>>
                        THEN w.phrase_for_storage \o <<",", " ">> \o d.translation ELSE Null
        verb_entries ==
            IF is_verb
            THEN [i \in 1..Len(entries_ipa) |->
                    LET tr_item == Strip(Or(Or(entries_ipa[i].translation, d.translation), <<>>))
                    IN  [entries_ipa[i] EXCEPT
                            !.translation = tr_item,
                            !.association = IF tr_item # <<>>
                                            THEN entries_ipa[i].phrase \o <<",", " ">> \o tr_item
                                            ELSE <<>>]]
            ELSE entries_ipa
        first == is_verb /\ verb_entries # <<>> /\ ~is_noun_and_verb
        association == IF first
                       THEN (IF verb_entries[1].association = <<>> THEN Null
                             ELSE verb_entries[1].association)
                       ELSE association1
        ipa_word == IF first /\ (ipa1 = Null \/ ipa1 = <<>>)
                    THEN (IF verb_entries[1].ipa = <<>> THEN Null ELSE verb_entries[1].ipa)
                    ELSE ipa1
        reject_enabled == Strip(cfg.table) # <<>> /\ user_id # Null
        table == Strip(cfg.table)
    IN  IF cfg.error # <<>> THEN Raised(cfg.error, 0)
        ELSE IF reject_enabled /\ ~IsValidTableIdentifier(table)
        THEN Raised(<<"I", "n", "v", "a", "l", "i", "d", " ", "r", "e", "j", "e", "c", "t", "e", "d", "_", "w", "o", "r", "d", "s", "_", "t", "a", "b", "l", "e", " ", "i", "d", "e", "n", "t", "i", "f", "i", "e", "r">>, n)
        ELSE Returned([word |-> palabra, list_id |-> list_id, pos |-> d.pos,
                       is_verb |-> is_verb, is_noun |-> d.is_noun,
                       is_noun_and_verb |-> is_noun_and_verb, is_phrase |-> FALSE,
                       entries |-> IF is_verb THEN verb_entries ELSE <<>>,
                       association |-> association, ipa_word |-> ipa_word,
                       queries |->
                          IF ~is_verb /\ ~is_noun_and_verb
                          THEN WordRowQueries(env_link, reject_enabled, table, palabra,
                                              association, list_id, ipa_word, user_id,
                                              cfg.language_norm, extra_entries, entry)
                          ELSE (IF is_noun_and_verb
                                THEN WordRowQueries(env_link, reject_enabled, table, palabra,
                                                    association, list_id, ipa_word, user_id,
                                                    cfg.language_norm, <<>>, entry)
                                ELSE <<>>)
                               \o VerbRowQueries(reject_enabled, table, verb_entries, list_id,
                                                 user_id, cfg.language_norm, entry)],
                      n)

\* 2) the IPA requests of one token, from its classification c, details d and
\*    verb paradigm v
PrepareTranscribed(env_link, palabra, list_id, language, has_key, user_id, cfg, svc, c, d, v, entry) ==
    LET askIpa == has_key /\ (~c.is_verb \/ c.is_noun_and_verb)
    IN  PrepareStatements(env_link, palabra, list_id, user_id, cfg, svc, c, d,
            IF askIpa THEN WordIpa(svc, language, d.article, d.gender_fr, palabra)
            ELSE IF c.is_verb /\ ~c.is_noun_and_verb
            THEN [phrase_for_ipa |-> palabra, phrase_for_storage |-> palabra, ipa_word |-> Null]
            ELSE [phrase_for_ipa |-> _build_phrase(d.article, palabra),
                  phrase_for_storage |->
                       _maybe_append_fr_gender_marker(language,
                           _build_phrase(d.article, palabra),
                           IF Lower(language) = <<"f", "r">> THEN d.gender_fr ELSE <<>>),
                  ipa_word |-> Null],
            IF askIpa
            THEN [i \in 1..Len(d.extra_entries) |->
                    [d.extra_entries[i] EXCEPT
                        !.ipa = _get_phrase_ipa(svc, language, d.extra_entries[i].word)]]
            ELSE d.extra_entries,
            IF has_key /\ c.is_verb
            THEN [i \in 1..Len(v.verb_entries) |-> VerbEntryIpa(svc, language, v.verb_entries[i])]
            ELSE v.verb_entries,
            c.n + d.n + v.n
            + (IF askIpa THEN 1 + Len(d.extra_entries) ELSE 0)
            + (IF has_key /\ c.is_verb
               THEN Len(SelectSeq(v.verb_entries, LAMBDA e : Strip(e.phrase) # <<>>))
               ELSE 0),
            entry)

\* 1b) the stored form and the detail requests of one token, from its
\*     classification c
PrepareClassified(env_link, palabra0, list_id, language, has_key, user_id, cfg, expand_verbs, svc, c, entry) ==
    LET palabra == IF has_key THEN StoredToken(language, c, palabra0) ELSE palabra0
    IN  PrepareTranscribed(env_link, palabra, list_id, language, has_key, user_id, cfg, svc, c,
            TokenDetails(svc, language, c, palabra, has_key),
            IF has_key THEN VerbParadigm(svc, c, palabra, expand_verbs)
            ELSE [verb_entries |-> <<>>, tense |-> <<>>, n |-> 0],
            entry)

\* the single-token body of prepare_word_actions (source lines 1251-1873):
\* 1a) the classification of the normalised token
PrepareToken(env_link, palabra_in, list_id, language, api_key, user_id, rejected_words_table, expand_verbs, svc, entry) ==
    LET has_key == api_key # Null /\ api_key # <<>>
        palabra0 == SingleTokenText(language, palabra_in)
    IN  PrepareClassified(env_link, palabra0, list_id, language, has_key, user_id,
            _resolve_rejected_words_config(user_id, rejected_words_table, language),
            expand_verbs, svc,
            IF has_key THEN ClassifyToken(svc, language, palabra0) ELSE NoClassification,
            entry)

\* sum of f[1..k]
RECURSIVE SumTo(_, _)
SumTo(f, k) == IF k = 0 THEN 0 ELSE f[k] + SumTo(f, k - 1)

\* concatenation of the sequences q[1..k]
RECURSIVE ConcatTo(_, _)
ConcatTo(q, k) == IF k = 0 THEN <<>> ELSE ConcatTo(q, k - 1) \o q[k]

\* tokens deduplicated by lower-case key, order preserved, tokens with a space dropped
UniqueTokens(tokens) ==
    LET firsts == {i \in 1..Len(tokens) :
                     \A j \in 1..(i - 1) : Lower(tokens[j]) # Lower(tokens[i])}
        uniq == [i \in 1..Len(tokens) |-> IF i \in firsts THEN tokens[i] ELSE <<>>]
    IN  SelectSeq(uniq, LAMBDA t : t # <<>> /\ ~HasChar(t, " "))

\* a phrase compiler that never finds the phrase among the token statements
NeverAlreadyInserts(qs, w, lid) == FALSE

_already_inserts_word(qs, w, lid) ==
    \E i \in 1..Len(qs) :
        /\ qs[i].sql.op = "INSERT"
        /\ Len(qs[i].params) >= 3
        /\ qs[i].params[1] = w
        /\ qs[i].params[3] = lid

\* the phrase row's statements after those of its tokens, and the ActionSet;
\* sub[i] is what compiling the i-th token came to
PhraseStatements(clean_phrase, list_id, language, has_key, user_id, cfg, svc, sub) ==
    LET phrase_for_storage == _normalize_phrase_for_tts_storage(language, clean_phrase)
        failed == {i \in 1..Len(sub) : sub[i].error # <<>>}
        token_queries == ConcatTo([i \in 1..Len(sub) |-> sub[i].actions.queries], Len(sub))
        n_tokens == SumTo([i \in 1..Len(sub) |-> sub[i].requests], Len(sub))
        phrase_translation == IF has_key THEN _get_phrase_translation(svc, language, clean_phrase)
                              ELSE <<>>
        phrase_ipa == IF has_key THEN _get_phrase_ipa(svc, language, clean_phrase) ELSE Null
        phrase_association == IF phrase_translation # <<>>
                              THEN phrase_for_storage \o <<",", " ">> \o phrase_translation ELSE Null
        n == n_tokens + (IF has_key THEN 2 ELSE 0)
        reject_enabled == Strip(cfg.table) # <<>> /\ user_id # Null
        table == Strip(cfg.table)
        lang == cfg.language_norm
        queries ==
            token_queries
            \o (IF _already_inserts_word(token_queries, phrase_for_storage, list_id) THEN <<>>
                ELSE <<InsertQuery(reject_enabled, table, phrase_for_storage, phrase_association,
                                   list_id, phrase_ipa, user_id, lang, 0)>>)
            \o (IF phrase_ipa # Null /\ phrase_ipa # <<>>
                THEN <<UpdateIpaQuery(reject_enabled, table, phrase_for_storage, list_id,
                                      phrase_ipa, user_id, lang, 0)>>
                ELSE <<>>)
            \o (IF phrase_association # Null
                THEN <<UpdateAssocQuery(PhraseUpdateAssocSql(reject_enabled, table),
                                        reject_enabled, phrase_for_storage, list_id,
                                        phrase_association, user_id, lang, 0)>>
                ELSE <<>>)
    IN  IF failed # {}
        THEN LET i == CHOOSE k \in failed : \A j \in failed : k <= j
             IN  Raised(sub[i].error, SumTo([j \in 1..Len(sub) |-> sub[j].requests], i))
        ELSE IF cfg.error # <<>> THEN Raised(cfg.error, n)
        ELSE IF reject_enabled /\ ~IsValidTableIdentifier(table)
        THEN Raised(<<"I", "n", "v", "a", "l", "i", "d", " ", "r", "e", "j", "e", "c", "t", "e", "d", "_", "w", "o", "r", "d", "s", "_", "t", "a", "b", "l", "e", " ", "i", "d", "e", "n", "t", "i", "f", "i", "e", "r">>, n)
        ELSE Returned([NoActions EXCEPT !.word = phrase_for_storage, !.list_id = list_id,
                                        !.pos = <<"p", "h", "r", "a", "s", "e">>, !.is_phrase = TRUE,
                                        !.association = phrase_association,
                                        !.ipa_word = phrase_ipa, !.queries = queries], n)

\* the tokens of the phrase, each compiled as a single word
PhraseTokens(env_link, unique_tokens, list_id, language, api_key, user_id, rejected_words_table, svc) ==
    [i \in 1..Len(unique_tokens) |->
        PrepareToken(env_link, unique_tokens[i], list_id, language, api_key, user_id,
                     rejected_words_table, TRUE, svc, i)]

_prepare_phrase_actions(env_link, phrase, list_id, language, api_key, user_id, rejected_words_table, svc) ==
    PhraseStatements(_normalize_user_text(language, phrase), list_id, language,
        api_key # Null /\ api_key # <<>>, user_id,
        _resolve_rejected_words_config(user_id, rejected_words_table, language), svc,
        PhraseTokens(env_link,
            UniqueTokens(_tokenize_phrase(language, _normalize_user_text(language, phrase))),
            list_id, language, api_key, user_id, rejected_words_table, svc))

prepare_word_actions(env_link, palabra, list_id, language, api_key, user_id, rejected_words_table, svc) ==
    LET cfg == _resolve_rejected_words_config(user_id, rejected_words_table, language)
    IN  IF cfg.error # <<>> THEN Raised(cfg.error, 0)
        ELSE IF IsPhraseInput(language, palabra)
        THEN _prepare_phrase_actions(env_link, _normalize_user_text(language, palabra), list_id,
                                     language, api_key, cfg.user_id, cfg.table, svc)
        ELSE PrepareToken(env_link, palabra, list_id, language, api_key, cfg.user_id,
                          cfg.table, TRUE, svc, 1)

\* ------------------------------------------------------------------------
\* The system: the words table, the rejected-words registry, and client
\* sessions that call add_word (or compile an ActionSet and execute its
\* statements themselves), one database statement per step.
\* ------------------------------------------------------------------------

Sessions == {1, 2}

MaxCalls == 2

Service(garbled) == [garbled |-> garbled, dictionary |-> Null, says_noun |-> FALSE]

\* a service whose POS reply names a noun, whatever the word
NounService == [garbled |-> {}, dictionary |-> Null, says_noun |-> TRUE]

Input(palabra, list_id, language, api_key, user_id, rejected_words_table, svc) ==
    [palabra |-> palabra, list_id |-> list_id, language |-> language, api_key |-> api_key,
     user_id |-> user_id, rejected_words_table |-> rejected_words_table, svc |-> svc]

FrInput(palabra, garbled) == Input(palabra, 1, <<"f", "r">>, <<"k">>, <<"u">>, Null, Service(garbled))

\* calls made against the shared list
Inputs ==
    {FrInput(<<"v", "e", "r", "s">>, {}), FrInput(<<"v", "e", "r", "s">>, {"noun", "other"}), FrInput(<<"v", "e", "r", "t">>, {}),
     FrInput(<<"v", "e", "r", "s", ";", "v", "e", "r", "t">>, {})}

Modes == {"add_word", "queries"}

Registries == {{}, {<<<<"u">>, <<"f", "r">>, <<"v", "e", "r", "t">>>>}}

NoInput == Input(<<>>, 0, <<>>, Null, Null, Null, Service({}))

NoCall == [input |-> NoInput, env |-> <<>>, made |-> FALSE, actions |-> NoActions]

NoLink == [word |-> <<>>, ipa |-> <<>>, candidates |-> <<>>, current_assoc |-> Null, k |-> 0]

\* failed: a statement of the call raised (whether or not the error was passed on)
NoResult == [error |-> <<>>, requests |-> 0, returned |-> FALSE, word_db_id |-> 0,
             failed |-> FALSE]

\* inputs of callers that only compile (phrases, verbs, adjectives, missing user
\* identity, registry names, garbled replies, no API key)
PrepareWords ==
    {<<"a", "m", "i">>, <<"A", "m", "i", "e", ".">>, <<"a", "m", "i", "s">>, <<"a", "m", "i", ";", "a", "m", "i", "e">>, <<"b", "e", "a", "u">>, <<"s", "o", "m", "m", "e", "s">>, <<"u00E9", "t", "u00E9">>, <<"t", "a", "r", "d">>, <<"v", "e", "r", "s">>,
     <<"v", "e", "r", "t">>, <<"v", "e", "r", "s", ";", "v", "e", "r", "t">>, <<"a", "m", "i", " ", "a", "m", "i", "s">>, <<"a", "m", "i", " ", "a", "m", "i", "e">>, <<"v", "e", "r", "s", " ", "v", "e", "r", "t">>, <<"d", "'", "a", "m", "i">>,
     <<"a", "n">>, <<"p", "a", "r", "l", "e">>, <<"n", "o", "u", "s", " ", "s", "o", "m", "m", "e", "s">>, <<"v", "o", "u", "s", " ", "u00EA", "t", "e", "s">>,
     <<"l", "i", "v", "r", "e">>, <<"p", "o", "m", "m", "e">>, <<"e", "s", "t">>, <<"d", "u00E9", "m", "e", "n", "t">>}

\* inputs compiled with one kind of reply garbled, or with all of them
GarbledWords == {<<"a", "m", "i">>, <<"b", "e", "a", "u">>, <<"s", "o", "m", "m", "e", "s">>, <<"u00E9", "t", "u00E9">>, <<"a", "m", "i", " ", "a", "m", "i", "e">>}

\* words compiled with a service whose POS reply names a noun
NounWords == {<<"a", "m", "i">>, <<"a", "m", "i", "e">>, <<"a", "n">>, <<"s", "o", "m", "m", "e", "s">>, <<"u00E9", "t", "u00E9">>, <<"v", "i", "t", "e">>, <<"e", "n", "c", "o", "r", "e">>, <<"p", "a", "r", "l", "e">>}

\* texts the dictionary lookup may yield (Null: no entry)
DictionaryTexts == {Null, IpaAmi, <<"[", "a", ".", "m", "i", "]">>}

RegistryNames == {<<"r", "e", "c", "h", "a", "z", "a", "d", "a", "s">>, <<"a", "p", "p", ".", "r", "e", "c", "h", "a", "z", "a", "d", "a", "s", "_", "2">>, <<" ", "r", "e", "c", "h", "a", "z", "a", "d", "a", "s", " ">>}

BadRegistryNames == {<<"b", "a", "d", " ", "n", "a", "m", "e", ";">>, <<"1", "x">>, <<"a", ".", "b", ".", "c">>, <<"x", ";", " ", "D", "R", "O", "P", " ", "T", "A", "B", "L", "E", " ", "w", "o", "r", "d", "s">>}

PrepareInputs ==
    {FrInput(w, g) : w \in PrepareWords, g \in {{}, {"noun", "other"}, {"ipa", "phrase_ipa"}}}
    \cup {FrInput(w, g) : w \in GarbledWords, g \in {{k} : k \in RequestKinds} \cup {RequestKinds}}
    \cup {Input(w, 1, <<"f", "r">>, <<"k">>, <<"u">>, Null, NounService) : w \in NounWords}
    \cup {Input(w, 1, <<"f", "r">>, <<"k">>, Null, t, Service({})) :
            w \in PrepareWords, t \in {Null, <<"r", "e", "c", "h", "a", "z", "a", "d", "a", "s">>}}
    \cup {Input(w, 2, <<"F", "R">>, <<"k">>, <<"u">>, t, Service({})) :
            w \in {<<"a", "m", "i">>, <<"b", "e", "a", "u">>, <<"s", "o", "m", "m", "e", "s">>, <<"a", "m", "i", " ", "a", "m", "i", "e">>}, t \in RegistryNames}
    \cup {Input(w, 1, <<"f", "r">>, <<"k">>, <<"u">>, t, Service({})) :
            w \in {<<"a", "m", "i", "e">>, <<"s", "o", "m", "m", "e", "s">>, <<"a", "m", "i", " ", "a", "m", "i", "s">>}, t \in BadRegistryNames}
    \cup {Input(w, 1, <<"f", "r">>, Null, <<"u">>, Null, [garbled |-> {}, dictionary |-> d, says_noun |-> FALSE]) :
            w \in {<<"a", "m", "i">>, <<"a", "m", "i", " ", "a", "m", "i", "e">>}, d \in DictionaryTexts}

\* values of WORD_ADDER_LINK_HOMOPHONES in the environment (empty: unset)
EnvLinkValues == {<<>>}

\* the same, for callers that only compile ("0": linking switched off)
PrepareEnvLinkValues == {<<>>, <<"0">>}

Compile(env, input) ==
    prepare_word_actions(env, input.palabra, input.list_id, input.language, input.api_key,
                         input.user_id, input.rejected_words_table, input.svc)

RECURSIVE RowOrders(_)
RowOrders(S) ==
    IF S = {} THEN {<<>>}
    ELSE UNION {{<<x>> \o p : p \in RowOrders(S \ {x})} : x \in S}

\* the orders in which a scan may visit the rows
ScanOrders(tbl) == RowOrders(1..Len(tbl))

\* chat: the one completion-service call (_call_openai_chat) followed request
\* by request; it stays NoChat where the service is taken by its replies
VARIABLES words, rejected, env_link, client, pc, call, qi, link, result, ncalls, chat

vars == <<words, rejected, env_link, client, pc, call, qi, link, result, ncalls, chat>>

NoChat == [pc |-> "none"]

Init ==
    /\ words = <<>>
    /\ rejected \in Registries
    /\ env_link \in EnvLinkValues
    /\ client \in [Sessions -> Modes]
    /\ pc = [s \in Sessions |-> "idle"]
    /\ call = [s \in Sessions |-> NoCall]
    /\ qi = [s \in Sessions |-> 0]
    /\ link = [s \in Sessions |-> NoLink]
    /\ result = [s \in Sessions |-> NoResult]
    /\ ncalls = 0
    /\ chat = NoChat

\* add_word(...) up to the first statement (client "add_word"), or
\* prepare_word_actions(...) by a caller that executes the queries itself
\* (client "queries")
CallWith(s, inputs) ==
    /\ pc[s] = "idle"
    /\ ncalls < MaxCalls
    /\ \E input \in inputs : \E r \in {Compile(env_link, input)} :
              /\ call' = [call EXCEPT ![s] = [input |-> input, env |-> env_link,
                                               made |-> TRUE, actions |-> r.actions]]
              /\ result' = [result EXCEPT ![s] = [error |-> r.error, requests |-> r.requests,
                                                   returned |-> r.error = <<>>,
                                                   word_db_id |-> 0, failed |-> FALSE]]
              /\ pc' = [pc EXCEPT ![s] = IF r.error # <<>> THEN "idle" ELSE "exec"]
    /\ qi' = [qi EXCEPT ![s] = 1]
    /\ link' = [link EXCEPT ![s] = NoLink]
    /\ ncalls' = ncalls + 1
    /\ UNCHANGED <<words, rejected, env_link, client, chat>>

Call(s) == CallWith(s, Inputs)

\* for sql, params in actions["queries"]: cur.execute(sql, params)
ExecStatement(s) ==
    /\ pc[s] = "exec"
    /\ qi[s] <= Len(call[s].actions.queries)
    /\ LET q == call[s].actions.queries[qi[s]]
       IN  \E order \in (IF q.sql.op = "LINK_SELF" THEN ScanOrders(words)
                         ELSE {[i \in 1..Len(words) |-> i]}) :
              words' = Execute(words, rejected, q, order)
    /\ qi' = [qi EXCEPT ![s] = qi[s] + 1]
    /\ pc' = [pc EXCEPT ![s] = IF qi[s] = Len(call[s].actions.queries)
                                  /\ client[s] = "queries"
                               THEN "idle" ELSE "exec"]
    /\ UNCHANGED <<rejected, env_link, client, call, link, result, ncalls, chat>>

\* the word add_word links and looks up
PrimaryWord(c) ==
    IF c.actions.is_verb /\ ~c.actions.is_noun_and_verb /\ c.actions.entries # <<>>
    THEN Or(Strip(Or(c.actions.entries[1].phrase, c.input.palabra)), c.input.palabra)
    ELSE c.input.palabra

\* SELECT word, association FROM words WHERE list_id = %s AND "IPA_word" = %s
\* AND word <> %s AND word NOT LIKE '% %'
CandidateRows(tbl, list_id, ipa, word) ==
    {i \in 1..Len(tbl) :
        /\ tbl[i].list_id = list_id
        /\ tbl[i].ipa = ipa
        /\ tbl[i].word # word
        /\ ~HasChar(tbl[i].word, " ")}

\* UPDATE words SET association = %s WHERE word = %s AND list_id = %s
SetAssociation(tbl, association, word, list_id) ==
    [i \in 1..Len(tbl) |->
        IF tbl[i].word = word /\ tbl[i].list_id = list_id
        THEN [tbl[i] EXCEPT !.association = association]
        ELSE tbl[i]]

\* _link_homophones_in_db: the early returns and the candidate query
LinkSelectCandidates(s) ==
    /\ pc[s] = "exec"
    /\ qi[s] > Len(call[s].actions.queries)
    /\ client[s] = "add_word"
    /\ LET word == PrimaryWord(call[s])
           ipa_word == OrEmpty(call[s].actions.ipa_word)
           ipa == Strip(ipa_word)
           list_id == call[s].input.list_id
           skip == \/ ipa_word = <<>>
                   \/ _canonical_word_for_homophones(<<"f", "r">>, word) # word
                   \/ ipa = <<>>
           found == IF skip THEN {} ELSE CandidateRows(words, list_id, ipa, word)
       IN  \E order \in ScanOrders(words) :
              LET hits == SelectSeq(order, LAMBDA i : i \in found)
              IN  /\ link' = [link EXCEPT ![s] =
                                [word |-> word, ipa |-> ipa,
                                 candidates |-> [k \in 1..Len(hits) |->
                                                   <<words[hits[k]].word,
                                                     words[hits[k]].association>>],
                                 current_assoc |-> Null, k |-> 1]]
                  /\ pc' = [pc EXCEPT ![s] = IF found = {} THEN "lookup" ELSE "link_current"]
    /\ UNCHANGED <<words, rejected, env_link, client, call, qi, result, ncalls, chat>>

\* SELECT association FROM words WHERE list_id = %s AND word = %s
LinkSelectCurrent(s) ==
    /\ pc[s] = "link_current"
    /\ LET rows == {i \in 1..Len(words) :
                      words[i].list_id = call[s].input.list_id /\ words[i].word = link[s].word}
       IN  \E cur \in (IF rows = {} THEN {Null} ELSE {words[i].association : i \in rows}) :
              link' = [link EXCEPT ![s].current_assoc = cur]
    /\ pc' = [pc EXCEPT ![s] = "link_self"]
    /\ UNCHANGED <<words, rejected, env_link, client, call, qi, result, ncalls, chat>>

\* whether the loop body skips the candidate (the two `continue`s)
SkipsCandidate(word, other_word) ==
    LET other_w == StripOrEmpty(other_word)
    IN  \/ other_w = <<>>
        \/ other_w = word
        \/ _canonical_word_for_homophones(<<"f", "r">>, other_w) # other_w

\* loop body, first half: append the candidate to the current word's association
LinkUpdateCurrent(s) ==
    /\ pc[s] = "link_self"
    /\ LET l == link[s]
           other_w == StripOrEmpty(l.candidates[l.k][1])
           new_current_assoc == _append_homophone_to_association(l.current_assoc, other_w)
           last == l.k = Len(l.candidates)
       IN  IF SkipsCandidate(l.word, l.candidates[l.k][1])
           THEN /\ link' = [link EXCEPT ![s].k = l.k + 1]
                /\ pc' = [pc EXCEPT ![s] = IF last THEN "lookup" ELSE "link_self"]
                /\ UNCHANGED words
           ELSE /\ pc' = [pc EXCEPT ![s] = "link_other"]
                /\ IF new_current_assoc # StripOrEmpty(l.current_assoc)
                   THEN /\ words' = SetAssociation(words, new_current_assoc, l.word,
                                                   call[s].input.list_id)
                        /\ link' = [link EXCEPT ![s].current_assoc = new_current_assoc]
                   ELSE UNCHANGED <<words, link>>
    /\ UNCHANGED <<rejected, env_link, client, call, qi, result, ncalls, chat>>

\* the association a row holds now (None when the row is gone)
StoredAssociation(tbl, word, list_id) ==
    IF \E i \in 1..Len(tbl) : tbl[i].word = word /\ tbl[i].list_id = list_id
    THEN tbl[CHOOSE i \in 1..Len(tbl) : tbl[i].word = word /\ tbl[i].list_id = list_id].association
    ELSE Null

\* a second half of the loop body that reads the candidate's association
\* again in the statement that writes it
LinkUpdateOtherFresh(s) ==
    /\ pc[s] = "link_other"
    /\ LET l == link[s]
           other_w == StripOrEmpty(l.candidates[l.k][1])
           other_assoc == StoredAssociation(words, other_w, call[s].input.list_id)
           new_other_assoc == _append_homophone_to_association(other_assoc, l.word)
       IN  /\ words' = IF new_other_assoc # StripOrEmpty(other_assoc)
                       THEN SetAssociation(words, new_other_assoc, other_w,
                                           call[s].input.list_id)
                       ELSE words
           /\ link' = [link EXCEPT ![s].k = l.k + 1]
           /\ pc' = [pc EXCEPT ![s] = IF l.k = Len(l.candidates) THEN "lookup" ELSE "link_self"]
    /\ UNCHANGED <<rejected, env_link, client, call, qi, result, ncalls, chat>>

\* loop body, second half: append the current word to the candidate's association
LinkUpdateOther(s) ==
    /\ pc[s] = "link_other"
    /\ LET l == link[s]
           other_w == StripOrEmpty(l.candidates[l.k][1])
           other_assoc == l.candidates[l.k][2]
           new_other_assoc == _append_homophone_to_association(other_assoc, l.word)
       IN  /\ words' = IF new_other_assoc # StripOrEmpty(other_assoc)
                       THEN SetAssociation(words, new_other_assoc, other_w,
                                           call[s].input.list_id)
                       ELSE words
           /\ link' = [link EXCEPT ![s].k = l.k + 1]
           /\ pc' = [pc EXCEPT ![s] = IF l.k = Len(l.candidates) THEN "lookup" ELSE "link_self"]
    /\ UNCHANGED <<rejected, env_link, client, call, qi, result, ncalls, chat>>

\* SELECT id FROM words WHERE word = %s AND list_id = %s; return
Lookup(s) ==
    /\ pc[s] = "lookup"
    /\ LET rows == {i \in 1..Len(words) :
                      /\ words[i].word = PrimaryWord(call[s])
                      /\ words[i].list_id = call[s].input.list_id}
       IN  \E id \in (IF rows = {} THEN {0} ELSE rows) :
              result' = [result EXCEPT ![s].word_db_id = id]
    /\ pc' = [pc EXCEPT ![s] = "idle"]
    /\ UNCHANGED <<words, rejected, env_link, client, call, qi, link, ncalls, chat>>

Next ==
    \E s \in Sessions :
        \/ Call(s)
        \/ ExecStatement(s)
        \/ LinkSelectCandidates(s)
        \/ LinkSelectCurrent(s)
        \/ LinkUpdateCurrent(s)
        \/ LinkUpdateOther(s)
        \/ Lookup(s)

Spec == Init /\ [][Next]_vars

\* ------------------------------------------------------------------------
\* Compilation alone: callers that only call prepare_word_actions, over a
\* wider range of inputs (phrases, verbs, adjectives, missing user identity,
\* registry names, garbled replies, no API key).
\* ------------------------------------------------------------------------

\* the caller's arguments are drawn before the call
InitPrepare ==
    /\ words = <<>>
    /\ rejected = {}
    /\ env_link \in PrepareEnvLinkValues
    /\ client = [s \in Sessions |-> "queries"]
    /\ pc = [s \in Sessions |-> "idle"]
    /\ \E input \in PrepareInputs :
          call = [s \in Sessions |-> IF s = 1 THEN [NoCall EXCEPT !.input = input] ELSE NoCall]
    /\ qi = [s \in Sessions |-> 0]
    /\ link = [s \in Sessions |-> NoLink]
    /\ result = [s \in Sessions |-> NoResult]
    /\ ncalls = 0
    /\ chat = NoChat

\* prepare_word_actions(...) by a caller that keeps the ActionSet
Prepare(s) ==
    /\ pc[s] = "idle"
    /\ ~call[s].made
    /\ call[s].input # NoInput
    /\ \E r \in {Compile(env_link, call[s].input)} :
           /\ call' = [call EXCEPT ![s] = [input |-> call[s].input, env |-> env_link,
                                            made |-> TRUE, actions |-> r.actions]]
           /\ result' = [result EXCEPT ![s] = [error |-> r.error, requests |-> r.requests,
                                                returned |-> r.error = <<>>,
                                                word_db_id |-> 0, failed |-> FALSE]]
    /\ ncalls' = ncalls + 1
    /\ UNCHANGED <<words, rejected, env_link, client, pc, qi, link, chat>>

NextPrepare == \E s \in Sessions : Prepare(s)

SpecPrepare == InitPrepare /\ [][NextPrepare]_vars

\* ------------------------------------------------------------------------
\* Properties of compilation (SpecPrepare).
\* ------------------------------------------------------------------------

\* the sessions whose call has returned an ActionSet
ReturnedSessions == {s \in Sessions : call[s].made /\ result[s].returned}

QueriesOf(s) == call[s].actions.queries

InsertsOf(s) == {i \in 1..Len(QueriesOf(s)) : QueriesOf(s)[i].sql.op = "INSERT"}

\* the registry table a call resolves to: the supplied name, or the default
\* when the name is omitted
ResolvedRegistry(input) ==
    IF input.rejected_words_table = Null \/ Strip(input.rejected_words_table) = <<>>
    THEN <<"p", "a", "l", "a", "b", "r", "a", "s", "_", "r", "e", "c", "h", "a", "z", "a", "d", "a", "s">>
    ELSE Strip(input.rejected_words_table)

LastThree(params) == SubSeq(params, Len(params) - 2, Len(params))

\* C6: whenever prepare_word_actions is called with a user identity, every
\* insert statement it emits (token row, verb-paradigm rows, derived
\* feminine row, full-phrase row) contains a NOT EXISTS subquery against the
\* resolved registry table (the supplied name, or 'palabras_rechazadas' when
\* the name is omitted) and its last three parameters are (user_id,
\* lower-cased language, the word being inserted).
C6_InsertsAreGuarded ==
    \A s \in Sessions :
        call[s].made /\ call[s].input.user_id # Null =>
            \A i \in InsertsOf(s) :
                LET q == QueriesOf(s)[i]
                IN  /\ CountToken(q.sql.text, "NOT EXISTS") = 1
                    /\ CountToken(q.sql.text, "{table}") = 1
                    /\ q.sql.table = ResolvedRegistry(call[s].input)
                    /\ Len(q.params) >= 4
                    /\ LastThree(q.params)
                         = <<call[s].input.user_id, Lower(call[s].input.language),
                             q.params[1]>>

\* a phrase compiled under a supplied registry name and an upper-case
\* language code, with a token row, a derived row and the full-phrase row
C6_Witness ==
    \E s \in ReturnedSessions :
        /\ call[s].input.user_id # Null
        /\ call[s].input.rejected_words_table # Null
        /\ call[s].input.language # Lower(call[s].input.language)
        /\ call[s].actions.is_phrase
        /\ Cardinality(InsertsOf(s)) >= 3
        /\ \E i \in InsertsOf(s) : QueriesOf(s)[i].entry = 0

\* C7: prepare_word_actions (single-token or phrase input) called without a
\* user identity raises a configuration error before issuing any
\* completion-service request, and returns no ActionSet and no statements.
C7_NoUserIdentityRaisesFirst ==
    \A s \in Sessions :
        call[s].made /\ call[s].input.user_id = Null =>
            /\ result[s].error # <<>>
            /\ result[s].requests = 0
            /\ ~result[s].returned
            /\ call[s].actions = NoActions

\* a phrase submitted with an API key and no user identity
C7_Witness ==
    \E s \in Sessions :
        /\ call[s].made
        /\ call[s].input.user_id = Null
        /\ call[s].input.api_key # Null
        /\ IsPhraseInput(call[s].input.language, call[s].input.palabra)
        /\ result[s].error # <<>>

\* C8: when the registry name does not match the strict identifier pattern,
\* prepare_word_actions raises a configuration error immediately, that is
\* before any completion-service request has been issued, and no statement
\* interpolating that name is ever returned.
C8_InvalidRegistryNameRaisesFirst ==
    \A s \in Sessions :
        (/\ call[s].made
         /\ call[s].input.user_id # Null
         /\ ~IsValidTableIdentifier(ResolvedRegistry(call[s].input))) =>
            /\ result[s].error # <<>>
            /\ result[s].requests = 0
            /\ QueriesOf(s) = <<>>

\* C9: for every statement of every ActionSet (inserts, conditional updates,
\* guarded variants and homophone-link updates), the number of positional
\* placeholders in the template equals the number of parameters, and every
\* percent sign that is not part of a placeholder is doubled.
C9_PlaceholdersMatchParams ==
    \A s \in Sessions :
        \A i \in 1..Len(QueriesOf(s)) :
            LET q == QueriesOf(s)[i]
            IN  /\ CountToken(q.sql.text, "%s") = Len(q.params)
                /\ CountToken(q.sql.text, "%") = 0

\* an ActionSet with a guarded insert, a guarded association update carrying
\* the repair pattern, and both homophone-link updates
C9_Witness ==
    \E s \in ReturnedSessions :
        /\ \E i \in InsertsOf(s) : Guarded(QueriesOf(s)[i].sql)
        /\ \E i \in 1..Len(QueriesOf(s)) :
              /\ QueriesOf(s)[i].sql.op = "UPDATE_ASSOC"
              /\ HasRepairClause(QueriesOf(s)[i].sql)
              /\ CountToken(QueriesOf(s)[i].sql.text, "%%") = 3
        /\ \E i \in 1..Len(QueriesOf(s)) : QueriesOf(s)[i].sql.op = "LINK_SELF"
        /\ \E i \in 1..Len(QueriesOf(s)) : QueriesOf(s)[i].sql.op = "LINK_OTHERS"

\* the word a statement inserts, or the word whose row it updates (the
\* second link statement updates the rows of other words)
IsInsertOf(q, w) == q.sql.op = "INSERT" /\ q.params[1] = w

IsIpaUpdateOf(q, w) == q.sql.op = "UPDATE_IPA" /\ q.params[2] = w

IsAssocUpdateOf(q, w) == q.sql.op = "UPDATE_ASSOC" /\ q.params[2] = w

IsUpdateOf(q, w) == q.sql.op \in {"UPDATE_IPA", "UPDATE_ASSOC", "LINK_SELF"} /\ q.params[2] = w

TargetWords(qs) ==
    {qs[i].params[1] : i \in {k \in 1..Len(qs) : qs[k].sql.op = "INSERT"}}
    \cup {qs[i].params[2] : i \in {k \in 1..Len(qs) : qs[k].sql.op \in {"UPDATE_IPA", "UPDATE_ASSOC", "LINK_SELF"}}}

\* C10 as stated: in the ordered statement sequence of every ActionSet
\* (single-token and phrase mode), for each target word the insert statement
\* precedes every update statement for that word, and the transcription
\* update precedes the association update for that word.
C10_InsertThenIpaThenAssoc ==
    \A s \in ReturnedSessions :
        LET qs == QueriesOf(s)
        IN  \A w \in TargetWords(qs) : \A i, j \in 1..Len(qs) :
                /\ IsInsertOf(qs[i], w) /\ IsUpdateOf(qs[j], w) => i < j
                /\ IsIpaUpdateOf(qs[i], w) /\ IsAssocUpdateOf(qs[j], w) => i < j

\* C10 amended: in the ordered statement sequence of every ActionSet, every
\* update statement for a word comes after an insert statement for that
\* word, after one compiled for the same entry (one token of a phrase, or
\* the phrase itself) when that entry holds an insert for the word, and
\* among the statements compiled for one entry the transcription update
\* precedes the association update.
C10_InsertThenIpaThenAssocPerEntry ==
    \A s \in ReturnedSessions :
        LET qs == QueriesOf(s)
        IN  \A w \in TargetWords(qs) : \A j \in 1..Len(qs) :
                /\ IsUpdateOf(qs[j], w) => \E i \in 1..(j - 1) : IsInsertOf(qs[i], w)
                /\ (/\ IsUpdateOf(qs[j], w)
                    /\ \E i \in 1..Len(qs) : IsInsertOf(qs[i], w) /\ qs[i].entry = qs[j].entry) =>
                      \E i \in 1..(j - 1) : IsInsertOf(qs[i], w) /\ qs[i].entry = qs[j].entry
                /\ \A i \in 1..Len(qs) :
                      qs[i].entry = qs[j].entry =>
                          (IsIpaUpdateOf(qs[i], w) /\ IsAssocUpdateOf(qs[j], w) => i < j)

\* a phrase two of whose tokens resolve to the same word, each with its own
\* insert, transcription update and association update
C10_Witness ==
    \E s \in ReturnedSessions :
        LET qs == QueriesOf(s)
        IN  /\ call[s].actions.is_phrase
            /\ \E w \in TargetWords(qs) : \E i, j \in 1..Len(qs) :
                  /\ qs[i].entry # qs[j].entry
                  /\ IsInsertOf(qs[j], w)
                  /\ IsAssocUpdateOf(qs[i], w)
                  /\ i < j
                  /\ \E k \in 1..Len(qs) : k > j /\ IsIpaUpdateOf(qs[k], w)

\* ------------------------------------------------------------------------
\* Properties of execution (Spec).
\* ------------------------------------------------------------------------

Quiescent == \A s \in Sessions : pc[s] = "idle"

RowIds == 1..Len(words)

\* C1: after executing any sequence of compiled ActionSets against the words
\* table (the same ActionSet repeated, different ActionSets one after
\* another, or the statement sequences of two invocations interleaved), the
\* table holds at most one row per (word, list_id).
C1_OneRowPerWordAndList ==
    \A i, j \in RowIds :
        words[i].word = words[j].word /\ words[i].list_id = words[j].list_id => i = j

\* two invocations for the same word, both past their insert statement, with
\* the word's row in the table
C1_Witness ==
    \E s, t \in Sessions :
        /\ s # t
        /\ pc[s] = "exec" /\ pc[t] = "exec"
        /\ qi[s] > 1 /\ qi[t] > 1
        /\ QueriesOf(s)[1].sql.op = "INSERT" /\ QueriesOf(t)[1].sql.op = "INSERT"
        /\ QueriesOf(s)[1].params[1] = QueriesOf(t)[1].params[1]
        /\ QueriesOf(s)[1].params[3] = QueriesOf(t)[1].params[3]
        /\ \E i \in RowIds : words[i].word = QueriesOf(s)[1].params[1]

\* the table after the statements qs[k..] have run one after another (rows
\* scanned in table order)
RECURSIVE RunFrom(_, _, _, _)
RunFrom(tbl, registry, qs, k) ==
    IF k > Len(qs) THEN tbl
    ELSE RunFrom(Execute(tbl, registry, qs[k], [i \in 1..Len(tbl) |-> i]), registry, qs, k + 1)

RunAll(tbl, registry, qs) == RunFrom(tbl, registry, qs, 1)

\* C2: executing the ordered statements of one ActionSet a second time,
\* right after its first execution, overwrites no stored transcription and
\* no stored association that is non-empty after the first execution: the
\* table state after two executions equals the state after one.
C2_SecondExecutionChangesNothing ==
    \A s \in Sessions :
        pc[s] = "exec" /\ qi[s] = 1 =>
            LET once == RunAll(words, rejected, QueriesOf(s))
            IN  RunAll(once, rejected, QueriesOf(s)) = once

\* whether the homophone suffix of row i names the word w
SuffixReferences(i, w) ==
    /\ words[i].association # Null
    /\ w \in SeqToSet(HomophoneItems(words[i].association))

\* C3: homophone symmetry: starting from a list whose associations carry no
\* homophone suffix, after any sequence of homophone linking operations
\* (executing the compiled link statements of prepare_word_actions, or the
\* live linking of add_word), for every two words A and B of the same list,
\* A's association suffix references B if and only if B's association
\* suffix references A.
C3_HomophoneSymmetry ==
    Quiescent =>
        \A i, j \in RowIds :
            i # j /\ words[i].list_id = words[j].list_id =>
                (SuffixReferences(i, words[j].word) <=> SuffixReferences(j, words[i].word))

\* '<phrase>, <translation>': text on both sides of the first ", "
IsPhraseAndTranslation(base) ==
    /\ Contains(base, <<",", " ">>)
    /\ Strip(SplitOnce(base, <<",", " ">>)[1]) # <<>>
    /\ Strip(SplitOnce(base, <<",", " ">>)[2]) # <<>>

\* the ';'-separated items of a homophone list
ListItems(text) ==
    LET parts == SplitChars(text, {";"})
    IN  SelectSeq([i \in 1..Len(parts) |-> Strip(parts[i])], LAMBDA p : p # <<>>)

\* the homophones an association lists: the items of its suffix, preceded by
\* the items of the part before the suffix when linking wrote that part (an
\* association that was absent or empty takes the list itself as its value)
ListedHomophones(a) ==
    LET base == IF Contains(a, _HOMOPHONE_SECTION_SEPARATOR)
                THEN SplitOnce(a, _HOMOPHONE_SECTION_SEPARATOR)[1] ELSE a
    IN  (IF IsPhraseAndTranslation(base) THEN <<>> ELSE ListItems(base))
        \o HomophoneItems(a)

\* absent, empty, or '<phrase>, <translation>'
HasNoHomophoneList(a) ==
    \/ a \in {Null, <<>>}
    \/ IsPhraseAndTranslation(a) /\ ~Contains(a, _HOMOPHONE_SECTION_SEPARATOR)

HasRepeatedItem(items) == \E i, j \in 1..Len(items) : i # j /\ items[i] = items[j]

\* C4: re-running homophone linking for the same word and transcription
\* (re-executing the compiled link statements, or calling the live linking
\* of add_word again) never makes a word appear twice in the homophone list
\* of any association, whatever the association's value was before the
\* first run (absent, empty, or '<phrase>, <translation>').
C4_RerunListsNoWordTwice ==
    \A s \in Sessions :
        (/\ pc[s] = "exec" /\ qi[s] = 1
         /\ \A i \in RowIds : HasNoHomophoneList(words[i].association)) =>
            LET once == RunAll(words, rejected, QueriesOf(s))
                twice == RunAll(once, rejected, QueriesOf(s))
            IN  \A i \in 1..Len(twice) :
                    twice[i].association # Null =>
                        ~HasRepeatedItem(ListedHomophones(twice[i].association))

\* '<phrase>, <translation>' optionally followed by exactly one suffix
\* ' | homófonos: w1; w2'
IsWellFormedAssociation(a) ==
    IF Contains(a, _HOMOPHONE_SECTION_SEPARATOR)
    THEN /\ IsPhraseAndTranslation(SplitOnce(a, _HOMOPHONE_SECTION_SEPARATOR)[1])
         /\ ~Contains(SplitOnce(a, _HOMOPHONE_SECTION_SEPARATOR)[2], _HOMOPHONE_SECTION_SEPARATOR)
         /\ HomophoneItems(a) # <<>>
    ELSE IsPhraseAndTranslation(a)

\* C5: association format invariant: after any sequence of add_word
\* executions (compiled statements plus live homophone linking) on a list
\* that initially satisfies it, every stored non-empty association is
\* '<phrase>, <translation>' optionally followed by exactly one reserved
\* suffix ' | homófonos: w1; w2'; no row ever holds a homophone list without
\* the '<phrase>, <translation>' base.
C5_AssociationFormat ==
    (Quiescent /\ \A s \in Sessions : client[s] = "add_word") =>
        \A i \in RowIds :
            words[i].association \notin {Null, <<>>} =>
                IsWellFormedAssociation(words[i].association)

\* ------------------------------------------------------------------------
\* Further properties of compilation (SpecPrepare).
\* ------------------------------------------------------------------------

\* every transcription an ActionSet carries: the top-level one, those of the
\* verb-paradigm entries, and those handed to the insert and IPA-update
\* statements (derived entries and the phrase row included)
TranscriptionsOf(a) ==
    {a.ipa_word}
    \cup {a.entries[i].ipa : i \in 1..Len(a.entries)}
    \cup {a.queries[i].params[4] : i \in {j \in 1..Len(a.queries) : a.queries[j].sql.op = "INSERT"}}
    \cup {a.queries[i].params[1] :
            i \in {j \in 1..Len(a.queries) : a.queries[j].sql.op = "UPDATE_IPA"}}

\* one segment wrapped in a single pair of slashes
IsSlashedSegment(t) ==
    /\ Len(t) >= 3
    /\ t[1] = "/"
    /\ t[Len(t)] = "/"
    /\ \A i \in 2..(Len(t) - 1) : t[i] # "/"

HasNoBracket(t) == \A i \in 1..Len(t) : t[i] \notin {"[", "]"}

\* no whitespace directly before or after the liaison marker
HasNoSpaceAtLiaison(t) ==
    \A i \in 1..Len(t) :
        t[i] = "u203F" =>
            /\ i > 1 => t[i - 1] \notin WhitespaceChars
            /\ i < Len(t) => t[i + 1] \notin WhitespaceChars

\* C11: every transcription that prepare_word_actions accepts into an
\* ActionSet (top-level, per verb-paradigm entry, derived entry or
\* phrase-level, whichever source it came from) is either absent or exactly
\* one segment wrapped in a single pair of slashes, with no bracket characters
\* and no whitespace directly adjacent to the liaison marker.
C11_TranscriptionsWellFormed ==
    \A s \in ReturnedSessions :
        \A t \in TranscriptionsOf(call[s].actions) :
            \/ t = Null
            \/ t = <<>>
            \/ IsSlashedSegment(t) /\ HasNoBracket(t) /\ HasNoSpaceAtLiaison(t)

\* the part of C11 the service replies satisfy: wrapped in one pair of slashes,
\* no bracket
C11_ServiceTranscriptionsWrapped ==
    \A s \in ReturnedSessions :
        call[s].input.svc.dictionary = Null =>
            \A t \in TranscriptionsOf(call[s].actions) :
                t = Null \/ t = <<>> \/ (IsSlashedSegment(t) /\ HasNoBracket(t))

\* the pos tags of a terminal classifier state
TerminalPosTags ==
    {<<"n", "o", "u", "n">>, <<"v", "e", "r", "b">>, <<"a", "d", "j", "e", "c", "t", "i", "v", "e">>,
     <<"n", "o", "u", "n", "_", "v", "e", "r", "b">>, <<"o", "t", "h", "e", "r">>}

\* C12: for every single-token invocation of prepare_word_actions that
\* returns an ActionSet, the ActionSet's pos tag is one of noun, verb,
\* adjective, noun_verb, other, whatever the completion service answered.
C12_PosTagIsTerminal ==
    \A s \in ReturnedSessions :
        (/\ ~IsPhraseInput(call[s].input.language, call[s].input.palabra)
         /\ call[s].input.api_key # Null)
            => call[s].actions.pos \in TerminalPosTags

\* the same for the calls whose POS reply names a part of speech
C12_PosTagIsTerminalWhenNamed ==
    \A s \in ReturnedSessions :
        (/\ ~IsPhraseInput(call[s].input.language, call[s].input.palabra)
         /\ call[s].input.api_key # Null
         /\ "pos" \notin call[s].input.svc.garbled
         /\ Lexicon(call[s].actions.word).pos # Null)
            => call[s].actions.pos \in TerminalPosTags

\* a compilation made with an API key, a user identity and a registry name
\* of the accepted form
IsServedCall(s) ==
    /\ call[s].made
    /\ call[s].input.api_key # Null
    /\ call[s].input.user_id # Null
    /\ IsValidTableIdentifier(ResolvedRegistry(call[s].input))

\* the fewest requests a compilation issues when every step runs: for a
\* single token the POS request, one detail request and one IPA request; for
\* a phrase the phrase translation and the phrase IPA on top of its tokens'
LeastRequests(input) ==
    IF IsPhraseInput(input.language, input.palabra)
    THEN 2 + 3 * Len(UniqueTokens(_tokenize_phrase(input.language,
                         _normalize_user_text(input.language, input.palabra))))
    ELSE 3

\* C14: when the content of any completion-service response is not parseable
\* as a JSON object or lacks the expected fields, prepare_word_actions raises
\* no exception: the affected field is treated as absent, the remaining steps
\* still run, and the returned ActionSet still contains an insert statement.
C14_GarbledRepliesStillCompile ==
    \A s \in Sessions :
        IsServedCall(s) =>
            /\ result[s].error = <<>>
            /\ result[s].returned
            /\ result[s].requests >= LeastRequests(call[s].input)
            /\ InsertsOf(s) # {}

\* every kind of reply garbled, for a single token and for a phrase
C14_Witness ==
    \E s \in Sessions :
        /\ IsServedCall(s)
        /\ call[s].input.svc.garbled = RequestKinds
        /\ result[s].returned
        /\ InsertsOf(s) # {}
        /\ Len(QueriesOf(s)) >= 3

\* the single-token calls made with an API key whose ActionSet is a verb's
VerbCalls ==
    {s \in ReturnedSessions :
        /\ ~IsPhraseInput(call[s].input.language, call[s].input.palabra)
        /\ call[s].input.api_key # Null
        /\ call[s].actions.is_verb}

\* the words of the insert statements, in statement order
InsertedWords(qs) ==
    LET ins == SelectSeq(qs, LAMBDA q : q.sql.op = "INSERT")
    IN  [i \in 1..Len(ins) |-> ins[i].params[1]]

\* the paradigm forms in the reply to the verb request of a call
ReturnedForms(s) ==
    _extract_json_from_text(Reply(call[s].input.svc, "verb", call[s].actions.word)).obj.forms

\* the infinitive the classifier resolved for a call ("" for none)
ResolvedInfinitive(s) ==
    Strip(ClassifyToken(call[s].input.svc, call[s].input.language,
                        SingleTokenText(call[s].input.language,
                                        call[s].input.palabra)).verb_infinitive)

NounRowOf(a) == IF a.is_noun_and_verb THEN <<a.word>> ELSE <<>>

IsInfinitiveEntry(e) == e.pronoun = <<"i", "n", "f", "i", "n", "i", "t", "i", "v", "e">>

\* None and "" are both an absent association
SameAssociation(a, b) == OrEmpty(a) = OrEmpty(b)

\* C17 as stated: for a token whose final classification includes verb, the
\* inserted rows are the standalone noun row first when the token is noun+verb,
\* then one row per paradigm form returned by the completion service in the
\* returned order, then always one explicit infinitive row as the last; for a
\* pure verb the top-level association equals the first entry's association.
C17_VerbRowsWithInfinitiveAlways ==
    \A s \in VerbCalls :
        LET a == call[s].actions
            forms == ReturnedForms(s)
            k == Len(NounRowOf(a))
            rows == InsertedWords(a.queries)
        IN  /\ Len(rows) = k + Len(forms) + 1
            /\ SubSeq(rows, 1, k) = NounRowOf(a)
            /\ \A i \in 1..Len(forms) : a.entries[i].pronoun = StripOrEmpty(forms[i].pronoun)
            /\ Len(a.entries) = Len(forms) + 1
            /\ IsInfinitiveEntry(a.entries[Len(a.entries)])
            /\ ~a.is_noun_and_verb => SameAssociation(a.association, a.entries[1].association)

\* C17 amended: the rows are the noun row first when the token is noun+verb,
\* then one row per returned paradigm form that has a phrase, in the returned
\* order, then one infinitive row as the last when the classifier resolved an
\* infinitive; with neither form nor infinitive, one row for the token itself;
\* for a pure verb the top-level association is the first entry's.
C17_VerbRowsWithInfinitiveWhenResolved ==
    \A s \in VerbCalls :
        LET a == call[s].actions
            forms == SelectSeq(ReturnedForms(s), LAMBDA f : StripOrEmpty(f.phrase) # <<>>)
            inf == ResolvedInfinitive(s)
            rows == InsertedWords(a.queries)
        IN  /\ rows = NounRowOf(a) \o [i \in 1..Len(a.entries) |-> a.entries[i].phrase]
            /\ Len(a.entries) = IF forms = <<>> /\ inf = <<>> THEN 1
                                ELSE Len(forms) + (IF inf = <<>> THEN 0 ELSE 1)
            /\ \A i \in 1..Len(forms) :
                  /\ a.entries[i].pronoun = StripOrEmpty(forms[i].pronoun)
                  /\ \/ a.entries[i].phrase = Strip(forms[i].phrase)
                     \/ _accept_verb_phrase_correction(call[s].input.language,
                                                       Strip(forms[i].phrase), a.entries[i].phrase)
            /\ inf # <<>> =>
                  /\ IsInfinitiveEntry(a.entries[Len(a.entries)])
                  /\ a.entries[Len(a.entries)].phrase = inf
            /\ \A i \in 1..(Len(a.entries) - 1) : ~IsInfinitiveEntry(a.entries[i])
            /\ (forms = <<>> /\ inf = <<>>) => a.entries[1].phrase = a.word
            /\ ~a.is_noun_and_verb => SameAssociation(a.association, a.entries[1].association)

\* a pure verb compiled into a paradigm row and the infinitive row
C17_Witness ==
    \E s \in VerbCalls :
        /\ ~call[s].actions.is_noun_and_verb
        /\ Len(call[s].actions.entries) >= 2
        /\ IsInfinitiveEntry(call[s].actions.entries[Len(call[s].actions.entries)])
        /\ call[s].actions.association # Null
        /\ Len(InsertedWords(call[s].actions.queries)) = Len(call[s].actions.entries)

\* the calls in phrase mode that returned an ActionSet
PhraseCalls ==
    {s \in ReturnedSessions : IsPhraseInput(call[s].input.language, call[s].input.palabra)}

\* the statements of the single-token pipeline of every distinct token of the
\* phrase of a call, in first-seen order
TokenStatements(s) ==
    LET inp == call[s].input
        cfg == _resolve_rejected_words_config(inp.user_id, inp.rejected_words_table, inp.language)
        clean == _normalize_user_text(inp.language, inp.palabra)
        sub == PhraseTokens(call[s].env, UniqueTokens(_tokenize_phrase(inp.language, clean)),
                            inp.list_id, inp.language, inp.api_key, cfg.user_id, cfg.table, inp.svc)
    IN  ConcatTo([i \in 1..Len(sub) |-> sub[i].actions.queries], Len(sub))

\* the storage-safe rendering of the phrase of a call
PhraseTarget(s) ==
    _normalize_phrase_for_tts_storage(call[s].input.language,
        _normalize_user_text(call[s].input.language, call[s].input.palabra))

\* the positions of the insert statements of qs whose target is (w, lid)
InsertsTargeting(qs, w, lid) ==
    {i \in 1..Len(qs) : qs[i].sql.op = "INSERT" /\ qs[i].params[1] = w /\ qs[i].params[3] = lid}

\* C18 as stated: for an input of two or more tokens the ActionSet holds the
\* statements of the single-token pipeline of every distinct token in
\* first-seen order, and exactly one insert statement whose target is
\* (storage-safe rendering of the phrase, list_id).
C18_ExactlyOnePhraseInsert ==
    \A s \in PhraseCalls :
        LET qs == QueriesOf(s)
            tq == TokenStatements(s)
        IN  /\ Len(qs) >= Len(tq)
            /\ SubSeq(qs, 1, Len(tq)) = tq
            /\ Cardinality(InsertsTargeting(qs, PhraseTarget(s), call[s].input.list_id)) = 1

\* C18 amended: the token statements come first, and after them the compiler
\* adds one insert for the phrase exactly when no token statement already
\* inserts it, so the phrase is inserted at least once and as often as the
\* token statements insert it otherwise.
C18_PhraseInsertNotRepeated ==
    \A s \in PhraseCalls :
        LET qs == QueriesOf(s)
            tq == TokenStatements(s)
            lid == call[s].input.list_id
            k == Cardinality(InsertsTargeting(tq, PhraseTarget(s), lid))
        IN  /\ Len(qs) >= Len(tq)
            /\ SubSeq(qs, 1, Len(tq)) = tq
            /\ Cardinality(InsertsTargeting(qs, PhraseTarget(s), lid)) = (IF k = 0 THEN 1 ELSE k)
            /\ k = 0 => qs[Len(tq) + 1].sql.op = "INSERT"

\* a phrase whose insert is already among the statements of a token's paradigm
C18_Witness ==
    \E s \in PhraseCalls :
        /\ Cardinality(InsertsTargeting(TokenStatements(s), PhraseTarget(s), call[s].input.list_id)) = 1
        /\ Cardinality(InsertsTargeting(QueriesOf(s), PhraseTarget(s), call[s].input.list_id)) = 1
        /\ Len(QueriesOf(s)) > Len(TokenStatements(s))

\* the single-token calls made with an API key that returned an ActionSet
TokenCalls ==
    {s \in ReturnedSessions :
        /\ ~IsPhraseInput(call[s].input.language, call[s].input.palabra)
        /\ call[s].input.api_key # Null}

\* the token the classifier of a call works on
TokenOf(s) == SingleTokenText(call[s].input.language, call[s].input.palabra)

\* the classification the primary pass yields: the parsed POS reply, with the
\* ambiguity list applied
PrimaryPass(s) ==
    LET o == _extract_json_from_text(Reply(call[s].input.svc, "pos", TokenOf(s))).obj
        p == _parse_pos_field(IF o.pos # Null THEN o.pos ELSE o.part_of_speech)
    IN  IF /\ Lower(call[s].input.language) = <<"f", "r">>
           /\ _is_fr_ambiguous_noun_verb_token(TokenOf(s)) /\ p.is_verb /\ ~p.is_noun
        THEN [p EXCEPT !.is_noun = TRUE] ELSE p

\* the classifier's result for a call, and the number of verb-check requests
ClassifierResult(s) == ClassifyToken(call[s].input.svc, call[s].input.language, TokenOf(s))

VerbChecksIssued(s) == ClassifierResult(s).n - 1

\* the answer of the service to the verb check of a call
VerbCheckAnswer(s) ==
    _extract_json_from_text(Reply(call[s].input.svc, "verb_check", TokenOf(s))).obj.is_verb

VerbCheckCondition(s) ==
    /\ Lower(call[s].input.language) = <<"f", "r">>
    /\ PrimaryPass(s).is_noun /\ ~PrimaryPass(s).is_verb
    /\ _looks_like_fr_conjugated_verb_form(TokenOf(s))

AfterPositiveCheck(s) ==
    /\ call[s].actions.is_verb
    /\ call[s].actions.pos = (IF _is_fr_ambiguous_noun_verb_token(TokenOf(s))
                              THEN <<"n", "o", "u", "n", "_", "v", "e", "r", "b">> ELSE <<"v", "e", "r", "b">>)
    /\ call[s].actions.is_noun_and_verb = _is_fr_ambiguous_noun_verb_token(TokenOf(s))

AfterNegativeCheck(s) ==
    /\ ClassifierResult(s).pos = <<"n", "o", "u", "n">>
    /\ ClassifierResult(s).is_noun /\ ~ClassifierResult(s).is_verb

NounCalls ==
    {s \in TokenCalls :
        /\ Lower(call[s].input.language) = <<"f", "r">>
        /\ ClassifierResult(s).is_noun}

\* the word the detail requests of a call ask about
DetailWord(s) == StoredToken(call[s].input.language, ClassifierResult(s), TokenOf(s))

NounDetailReply(s) == _extract_json_from_text(Reply(call[s].input.svc, "noun", DetailWord(s)))

\* the noun-detail step yields an article of the closed set
ValidArticleObtained(s) ==
    /\ Truthy(NounDetailReply(s))
    /\ _normalize_article(OrEmpty(NounDetailReply(s).obj.article), call[s].input.language) # <<>>

ArticleRetriesIssued(s) ==
    NounDetails(call[s].input.svc, call[s].input.language, ClassifierResult(s), DetailWord(s)).n - 1

\* C20 as stated: for a French token classified as noun the article-only
\* query is issued exactly once whenever the noun-detail step yields no valid
\* article (empty, outside the closed set, or an unparseable reply), and never
\* when a valid article was obtained.
C20_ArticleRetryWheneverNoArticle ==
    \A s \in NounCalls :
        /\ ArticleRetriesIssued(s) = (IF ValidArticleObtained(s) THEN 0 ELSE 1)
        /\ result[s].requests >= ClassifierResult(s).n + 1 + ArticleRetriesIssued(s)

\* C20, what holds: the article-only query is issued exactly once when the
\* noun-detail reply holds a JSON object with some field but no valid article,
\* and not at all otherwise.
C20_ArticleRetryWhenReplyParsed ==
    \A s \in NounCalls :
        /\ ArticleRetriesIssued(s) =
              (IF Truthy(NounDetailReply(s)) /\ ~ValidArticleObtained(s) THEN 1 ELSE 0)
        /\ result[s].requests >= ClassifierResult(s).n + 1 + ArticleRetriesIssued(s)

\* the retry was issued for a noun whose reply named an article outside the
\* closed set
C20_RetryIssued ==
    \E s \in NounCalls :
        /\ Truthy(NounDetailReply(s)) /\ OrEmpty(NounDetailReply(s).obj.article) # <<>>
        /\ ~ValidArticleObtained(s) /\ ArticleRetriesIssued(s) = 1

\* ------------------------------------------------------------------------
\* add_word with a cursor whose statements may raise: one caller, whose
\* inputs include words that normalisation changes.
\* ------------------------------------------------------------------------

AddWordInputs ==
    {FrInput(w, {}) : w \in {<<"v", "e", "r", "s">>, <<"v", "e", "r", "t">>, <<"a", "m", "i", "s">>, <<"A", "m", "i", "e", ".">>, <<"s", "o", "m", "m", "e", "s">>}}

InitAddWord ==
    /\ words = <<>>
    /\ rejected = {}
    /\ env_link = <<>>
    /\ client = [s \in Sessions |-> "add_word"]
    /\ pc = [s \in Sessions |-> "idle"]
    /\ call = [s \in Sessions |-> NoCall]
    /\ qi = [s \in Sessions |-> 0]
    /\ link = [s \in Sessions |-> NoLink]
    /\ result = [s \in Sessions |-> NoResult]
    /\ ncalls = 0
    /\ chat = NoChat

AddWord(s) == CallWith(s, AddWordInputs)

\* what the caller of add_word receives when a statement raises
StatementError == <<"s", "t", "a", "t", "e", "m", "e", "n", "t", " ", "f", "a", "i", "l", "e", "d">>

\* cur.execute raises for one of the compiled statements (lines 1900-1901):
\* nothing catches it
ExecStatementFails(s) ==
    /\ pc[s] = "exec"
    /\ qi[s] <= Len(call[s].actions.queries)
    /\ result' = [result EXCEPT ![s].error = StatementError, ![s].returned = FALSE,
                                ![s].failed = TRUE]
    /\ pc' = [pc EXCEPT ![s] = "idle"]
    /\ UNCHANGED <<words, rejected, env_link, client, call, qi, link, ncalls, chat>>

\* the step of _link_homophones_in_db the session is at executes a statement
LinkStatementDue(s) ==
    \/ /\ pc[s] = "exec"
       /\ qi[s] > Len(call[s].actions.queries)
       /\ client[s] = "add_word"
       /\ OrEmpty(call[s].actions.ipa_word) # <<>>
       /\ Strip(OrEmpty(call[s].actions.ipa_word)) # <<>>
       /\ _canonical_word_for_homophones(<<"f", "r">>, PrimaryWord(call[s])) = PrimaryWord(call[s])
    \/ pc[s] = "link_current"
    \/ /\ pc[s] = "link_self"
       /\ ~SkipsCandidate(link[s].word, link[s].candidates[link[s].k][1])
       /\ _append_homophone_to_association(link[s].current_assoc,
                                           StripOrEmpty(link[s].candidates[link[s].k][1]))
             # StripOrEmpty(link[s].current_assoc)
    \/ /\ pc[s] = "link_other"
       /\ _append_homophone_to_association(link[s].candidates[link[s].k][2], link[s].word)
             # StripOrEmpty(link[s].candidates[link[s].k][2])

\* cur.execute raises inside _link_homophones_in_db: caught at line 1924,
\* word_db_id = None, and add_word returns
LinkStatementFails(s) ==
    /\ LinkStatementDue(s)
    /\ result' = [result EXCEPT ![s].word_db_id = 0, ![s].failed = TRUE]
    /\ pc' = [pc EXCEPT ![s] = "idle"]
    /\ UNCHANGED <<words, rejected, env_link, client, call, qi, link, ncalls, chat>>

\* the SELECT id raises: caught at line 1924 as well
LookupFails(s) ==
    /\ pc[s] = "lookup"
    /\ result' = [result EXCEPT ![s].word_db_id = 0, ![s].failed = TRUE]
    /\ pc' = [pc EXCEPT ![s] = "idle"]
    /\ UNCHANGED <<words, rejected, env_link, client, call, qi, link, ncalls, chat>>

NextAddWord ==
    \/ AddWord(1)
    \/ ExecStatement(1)
    \/ ExecStatementFails(1)
    \/ LinkSelectCandidates(1)
    \/ LinkSelectCurrent(1)
    \/ LinkUpdateCurrent(1)
    \/ LinkUpdateOther(1)
    \/ LinkStatementFails(1)
    \/ Lookup(1)
    \/ LookupFails(1)

SpecAddWord == InitAddWord /\ [][NextAddWord]_vars

\* add_word has returned its result to the caller of session s
AddWordReturned(s) ==
    /\ call[s].made /\ client[s] = "add_word"
    /\ pc[s] = "idle" /\ result[s].error = <<>>

\* C13: a statement-execution failure raised by the cursor during add_word
\* (compiled statements, live homophone linking, row-identifier lookup)
\* propagates to the caller: add_word never returns normally after a failed
\* statement.
C13_StatementFailurePropagates ==
    \A s \in Sessions : result[s].failed => ~AddWordReturned(s)

\* C13, what holds: a failure of one of the compiled statements propagates.
C13_CompiledStatementFailurePropagates ==
    \A s \in Sessions :
        (result[s].failed /\ qi[s] <= Len(call[s].actions.queries)) =>
            /\ ~AddWordReturned(s)
            /\ result[s].error = StatementError

\* a compiled statement has failed and the error reached the caller
C13_CompiledFailureSeen ==
    \E s \in Sessions :
        /\ result[s].failed /\ qi[s] <= Len(call[s].actions.queries)
        /\ pc[s] = "idle" /\ result[s].error = StatementError

\* the row the compiled statements of a call target first: the canonical word,
\* or the first paradigm phrase for a pure verb
PrimaryTarget(c) ==
    IF c.actions.is_verb /\ ~c.actions.is_noun_and_verb /\ c.actions.entries # <<>>
    THEN c.actions.entries[1].phrase
    ELSE c.actions.word

RowsOf(tbl, word, list_id) ==
    {i \in 1..Len(tbl) : tbl[i].word = word /\ tbl[i].list_id = list_id}

\* C16: after add_word returns, the row identifier it reports is that of the
\* primary row its compiled statements target whenever that row exists in the
\* list, also when normalisation made the canonical word differ from the raw
\* input.
C16_ReportsPrimaryRow ==
    \A s \in Sessions :
        (AddWordReturned(s) /\ ~result[s].failed) =>
            LET rows == RowsOf(words, PrimaryTarget(call[s]), call[s].input.list_id)
            IN  rows # {} => result[s].word_db_id \in rows

\* C16, what holds: the identifier is that of the primary row when the word
\* looked up (the raw input, or the first paradigm phrase) is the canonical one.
C16_ReportsPrimaryRowOfUnchangedInput ==
    \A s \in Sessions :
        (AddWordReturned(s) /\ ~result[s].failed
           /\ PrimaryWord(call[s]) = PrimaryTarget(call[s])) =>
            LET rows == RowsOf(words, PrimaryTarget(call[s]), call[s].input.list_id)
            IN  rows # {} => result[s].word_db_id \in rows

\* add_word returned the identifier of the row of an unchanged input
C16_IdentifierReported ==
    \E s \in Sessions :
        /\ AddWordReturned(s) /\ ~result[s].failed
        /\ PrimaryWord(call[s]) = PrimaryTarget(call[s])
        /\ result[s].word_db_id \in RowsOf(words, PrimaryTarget(call[s]), call[s].input.list_id)

\* ------------------------------------------------------------------------
\* _call_openai_chat: one completion-service call, request by request.  The
\* service answers each request with a success, an error response (its cause
\* and its message), or not at all (the transport raises).
\* ------------------------------------------------------------------------

fallback_model == <<"g", "p", "t", "-", "3", ".", "5", "-", "t", "u", "r", "b", "o">>

\* values of OPENAI_MODEL (the first is the default)
PrimaryModels == {<<"g", "p", "t", "-", "4", "o">>, <<"g", "p", "t", "-", "4">>, fallback_model}

models_to_try(primary_model) ==
    IF primary_model = fallback_model THEN <<primary_model>>
    ELSE <<primary_model, fallback_model>>

ChatResponse(status, cause, msg) == [status |-> status, cause |-> cause, msg |-> msg]

NoResponse == ChatResponse(0, "none", <<>>)

\* status 0: requests.post raised (timeout, connection)
Responses ==
    {ChatResponse(200, "none", <<>>),
     ChatResponse(0, "transport", <<>>),
     ChatResponse(404, "model_unavailable", <<"T", "h", "e", " ", "m", "o", "d", "e", "l", " ", "d", "o", "e", "s", " ", "n", "o", "t", " ", "e", "x", "i", "s", "t", " ", "o", "r", " ", "y", "o", "u", " ", "d", "o", " ", "n", "o", "t", " ", "h", "a", "v", "e", " ", "a", "c", "c", "e", "s", "s", " ", "t", "o", " ", "i", "t", ".">>),
     ChatResponse(400, "unsupported_shape", <<"U", "n", "r", "e", "c", "o", "g", "n", "i", "z", "e", "d", " ", "r", "e", "q", "u", "e", "s", "t", " ", "a", "r", "g", "u", "m", "e", "n", "t", " ", "s", "u", "p", "p", "l", "i", "e", "d", ":", " ", "r", "e", "s", "p", "o", "n", "s", "e", "_", "f", "o", "r", "m", "a", "t">>),
     ChatResponse(400, "unsupported_shape", <<"I", "n", "v", "a", "l", "i", "d", " ", "p", "a", "r", "a", "m", "e", "t", "e", "r", ":", " ", "r", "e", "s", "p", "o", "n", "s", "e", "_", "f", "o", "r", "m", "a", "t", " ", "o", "f", " ", "t", "y", "p", "e", " ", "j", "s", "o", "n", "_", "o", "b", "j", "e", "c", "t", " ", "i", "s", " ", "n", "o", "t", " ", "s", "u", "p", "p", "o", "r", "t", "e", "d", " ", "w", "i", "t", "h", " ", "t", "h", "i", "s", " ", "m", "o", "d", "e", "l", ".">>),
     ChatResponse(400, "other", <<"T", "h", "i", "s", " ", "m", "o", "d", "e", "l", "'", "s", " ", "m", "a", "x", "i", "m", "u", "m", " ", "c", "o", "n", "t", "e", "x", "t", " ", "l", "e", "n", "g", "t", "h", " ", "i", "s", " ", "4", "0", "9", "7", " ", "t", "o", "k", "e", "n", "s", ".">>),
     ChatResponse(401, "other", <<"I", "n", "c", "o", "r", "r", "e", "c", "t", " ", "A", "P", "I", " ", "k", "e", "y", " ", "p", "r", "o", "v", "i", "d", "e", "d", ".">>)}

\* any(s in msg.lower() for s in ["response_format", "unsupported", "unrecognized"])
MentionsShape(msg) ==
    \E k \in {<<"r", "e", "s", "p", "o", "n", "s", "e", "_", "f", "o", "r", "m", "a", "t">>, <<"u", "n", "s", "u", "p", "p", "o", "r", "t", "e", "d">>, <<"u", "n", "r", "e", "c", "o", "g", "n", "i", "z", "e", "d">>} : Contains(Lower(msg), k)

\* any(s in msg.lower() for s in ["model", "not found", "does not exist", "unknown"])
MentionsModel(msg) ==
    \E k \in {<<"m", "o", "d", "e", "l">>, <<"n", "o", "t", " ", "f", "o", "u", "n", "d">>, <<"d", "o", "e", "s", " ", "n", "o", "t", " ", "e", "x", "i", "s", "t">>, <<"u", "n", "k", "n", "o", "w", "n">>} : Contains(Lower(msg), k)

InitChat ==
    /\ words = <<>>
    /\ rejected = {}
    /\ env_link = <<>>
    /\ client = [s \in Sessions |-> "queries"]
    /\ pc = [s \in Sessions |-> "idle"]
    /\ call = [s \in Sessions |-> NoCall]
    /\ qi = [s \in Sessions |-> 0]
    /\ link = [s \in Sessions |-> NoLink]
    /\ result = [s \in Sessions |-> NoResult]
    /\ ncalls = 0
    /\ \E m \in PrimaryModels, f \in BOOLEAN :
          chat = [pc |-> "post", models |-> models_to_try(m), i |-> 1, response_format |-> f,
                  resp |-> NoResponse, posts |-> <<>>, last_error |-> FALSE, outcome |-> "none"]

ChatPosted(c, kind, with_format) ==
    Append(c.posts, [model |-> c.models[c.i], format |-> with_format, kind |-> kind,
                     after |-> c.resp])

ChatDone(c, posts, outcome) == [c EXCEPT !.pc = "done", !.posts = posts, !.outcome = outcome]

\* the end of the loop body after an error response r: on to the fallback
\* model, or raise_for_status()
AfterErrorResponse(c, posts, r) ==
    IF c.models[c.i] # fallback_model /\ MentionsModel(r.msg)
    THEN IF c.i < Len(c.models)
         THEN [c EXCEPT !.pc = "post", !.i = c.i + 1, !.posts = posts, !.resp = r,
                        !.last_error = TRUE]
         ELSE ChatDone([c EXCEPT !.last_error = TRUE, !.resp = r], posts, "error")
    ELSE ChatDone([c EXCEPT !.resp = r], posts, "error")

\* requests.post for the next model of models_to_try, with the response
\* format when the caller passed one
ChatPost ==
    /\ chat.pc = "post"
    /\ \E r \in Responses :
          LET posts == ChatPosted(chat, IF chat.i = 1 THEN "first" ELSE "fallback",
                                  chat.response_format)
          IN  chat' = IF r.status = 0 THEN ChatDone([chat EXCEPT !.resp = r], posts, "error")
                      ELSE IF r.status < 400 THEN ChatDone([chat EXCEPT !.resp = r], posts, "response")
                      ELSE IF chat.response_format /\ MentionsShape(r.msg)
                      THEN [chat EXCEPT !.pc = "retry", !.posts = posts, !.resp = r]
                      ELSE AfterErrorResponse(chat, posts, r)
    /\ UNCHANGED <<words, rejected, env_link, client, pc, call, qi, link, result, ncalls>>

\* payload.pop("response_format"); requests.post again for the same model
ChatRetryWithoutFormat ==
    /\ chat.pc = "retry"
    /\ \E r \in Responses :
          LET posts == ChatPosted(chat, "shape_retry", FALSE)
          IN  chat' = IF r.status = 0 THEN ChatDone([chat EXCEPT !.resp = r], posts, "error")
                      ELSE IF r.status < 400 THEN ChatDone([chat EXCEPT !.resp = r], posts, "response")
                      ELSE AfterErrorResponse(chat, posts, r)
    /\ UNCHANGED <<words, rejected, env_link, client, pc, call, qi, link, result, ncalls>>

NextChat == ChatPost \/ ChatRetryWithoutFormat

SpecChat == InitChat /\ [][NextChat]_vars

PostsOfKind(kind) == {i \in 1..Len(chat.posts) : chat.posts[i].kind = kind}

\* C15: a single completion-service call performs at most one retry on the
\* fixed fallback model, only after a model-availability error, and at most
\* one retry with the response format removed, only after an
\* unsupported-shape error; every other error response propagates without a
\* retry, and the call ends with a response or an error.
C15_OneRetryEachAfterItsError ==
    /\ Cardinality(PostsOfKind("fallback")) <= 1
    /\ \A i \in PostsOfKind("fallback") :
          /\ chat.posts[i].model = fallback_model
          /\ chat.posts[i].after.cause = "model_unavailable"
    /\ Cardinality(PostsOfKind("shape_retry")) <= 1
    /\ \A i \in PostsOfKind("shape_retry") :
          /\ ~chat.posts[i].format
          /\ chat.posts[i].after.cause = "unsupported_shape"
    /\ Len(chat.posts) <= 3
    /\ chat.pc = "done" => chat.outcome \in {"response", "error"}

\* C15, what holds: at most one request to the fallback model, sent only after
\* an error response of another model whose message holds one of the model
\* keywords; per model at most one request without the response format, sent
\* only when the caller passed a format and the message holds one of the shape
\* keywords; at most four requests, and the call ends with a response or an
\* error.
C15_RetriesBoundedByKeywords ==
    /\ Cardinality(PostsOfKind("fallback")) <= 1
    /\ \A i \in PostsOfKind("fallback") :
          /\ chat.posts[i].model = fallback_model
          /\ chat.models[1] # fallback_model
          /\ chat.posts[i].after.status >= 400
          /\ MentionsModel(chat.posts[i].after.msg)
    /\ \A i, j \in PostsOfKind("shape_retry") : chat.posts[i].model = chat.posts[j].model => i = j
    /\ \A i \in PostsOfKind("shape_retry") :
          /\ ~chat.posts[i].format /\ chat.response_format
          /\ chat.posts[i].after.status >= 400
          /\ MentionsShape(chat.posts[i].after.msg)
          /\ chat.posts[i - 1].model = chat.posts[i].model /\ chat.posts[i - 1].format
    /\ Len(chat.posts) <= 4
    /\ chat.pc = "done" => chat.outcome \in {"response", "error"}
    /\ chat.pc # "done" => Len(chat.posts) < 4

\* a call answered by the fallback model after a retry without the format
C15_BothRetriesUsed ==
    /\ chat.pc = "done" /\ chat.outcome = "response"
    /\ PostsOfKind("fallback") # {} /\ PostsOfKind("shape_retry") # {}

\* ------------------------------------------------------------------------
\* Ambiguous pronoun groups in the paradigm of a verb
\* ------------------------------------------------------------------------

\* the entries of an ActionSet that belong to an ambiguous pronoun group
GroupedEntries(s) ==
    {i \in 1..Len(call[s].actions.entries) :
        PronounKey(Lower(call[s].input.language), call[s].actions.entries[i]).grouped}

SameSlot(s, i, j) ==
    PronounKey(Lower(call[s].input.language), call[s].actions.entries[i]).key
        = PronounKey(Lower(call[s].input.language), call[s].actions.entries[j]).key

\* C21 as stated: in the ActionSet returned for a verb, paradigm entries of
\* one ambiguous pronoun group (il/elle/on, ils/elles, er/sie/man) with the same
\* remaining verb-form text are merged into one slot: no two entries, and no
\* two inserted rows, belong to the same group with the same verb form.
C21_PronounGroupsMerged ==
    \A s \in VerbCalls :
        \A i \in GroupedEntries(s) : \A j \in GroupedEntries(s) :
            SameSlot(s, i, j) => i = j

\* C21 amended: the paradigm is stored as the completion service returned it,
\* one entry and one inserted row per form that has a phrase; a form of an
\* ambiguous pronoun group keeps its own pronoun and its own phrase.
C21_OneRowPerReturnedPronoun ==
    \A s \in VerbCalls :
        LET a == call[s].actions
            lang == Lower(call[s].input.language)
            forms == SelectSeq(ReturnedForms(s), LAMBDA f : StripOrEmpty(f.phrase) # <<>>)
        IN  \A i \in 1..Len(forms) :
                PronounKey(lang, forms[i]).grouped =>
                    /\ i \in GroupedEntries(s)
                    /\ a.entries[i].pronoun = StripOrEmpty(forms[i].pronoun)
                    /\ a.entries[i].phrase = Strip(forms[i].phrase)
                    /\ Cardinality(InsertsTargeting(a.queries, Strip(forms[i].phrase),
                                                    call[s].input.list_id)) = 1

\* a verb whose paradigm holds il, elle and on with the same verb form, each
\* stored as its own row
C21_Witness ==
    \E s \in VerbCalls :
        /\ \E i \in GroupedEntries(s) : \E j \in GroupedEntries(s) : i # j /\ SameSlot(s, i, j)
        /\ Cardinality(GroupedEntries(s)) = 3
        /\ \A i \in GroupedEntries(s) :
              Cardinality(InsertsTargeting(call[s].actions.queries, call[s].actions.entries[i].phrase,
                                           call[s].input.list_id)) = 1

\* ------------------------------------------------------------------------
\* The statements emitted per resolved entry
\* ------------------------------------------------------------------------

\* the rows an ActionSet resolves: one per insert statement (token rows,
\* paradigm rows, derived feminine rows) and the full-phrase row
ResolvedRows(s) ==
    LET a == call[s].actions
    IN  {[word |-> a.queries[i].params[1], association |-> a.queries[i].params[2],
          ipa |-> a.queries[i].params[4]] :
            i \in {j \in 1..Len(a.queries) : a.queries[j].sql.op = "INSERT"}}
        \cup (IF a.is_phrase
              THEN {[word |-> a.word, association |-> a.association, ipa |-> a.ipa_word]}
              ELSE {})

HasBoth(r) == r.ipa \notin {Null, <<>>} /\ r.association \notin {Null, <<>>}

AppliesWhenIpaAbsent(sql) == CountToken(sql.text, "AND IPA_word IS NULL") = 1

IpaUpdatesOf(qs, w) == {i \in 1..Len(qs) : IsIpaUpdateOf(qs[i], w)}

AssocUpdatesOf(qs, w) == {i \in 1..Len(qs) : IsAssocUpdateOf(qs[i], w)}

\* C22 as stated: every resolved entry of an ActionSet (token row, paradigm
\* row, derived feminine row, full-phrase row) that has a transcription and an
\* association comes with an insert-or-skip, a transcription update applied
\* only when the stored transcription is absent, and an association update
\* applied only when the stored association is absent, empty or matches the
\* multi-comma pattern.
C22_ThreeStatementsPerEntry ==
    \A s \in ReturnedSessions :
        LET qs == QueriesOf(s)
        IN  \A r \in ResolvedRows(s) :
                HasBoth(r) =>
                    /\ \E i \in 1..Len(qs) : IsInsertOf(qs[i], r.word)
                    /\ \E i \in IpaUpdatesOf(qs, r.word) :
                          qs[i].params[1] = r.ipa /\ AppliesWhenIpaAbsent(qs[i].sql)
                    /\ \E i \in AssocUpdatesOf(qs, r.word) :
                          qs[i].params[1] = r.association /\ HasRepairClause(qs[i].sql)

\* what holds: the row of a single token that is not a pure verb comes with the
\* three statements; the full-phrase row comes with both updates, the
\* association update without the multi-comma alternative; a pure verb's
\* ActionSet holds inserts only, one per paradigm entry.
C22_ThreeStatementsForTokenRow ==
    \A s \in ReturnedSessions :
        LET a == call[s].actions
            qs == QueriesOf(s)
            r == [word |-> a.word, association |-> a.association, ipa |-> a.ipa_word]
        IN  /\ (~a.is_phrase /\ (~a.is_verb \/ a.is_noun_and_verb) /\ HasBoth(r)) =>
                  /\ Cardinality(InsertsTargeting(qs, a.word, a.list_id)) >= 1
                  /\ \E i \in IpaUpdatesOf(qs, a.word) :
                        /\ IpaUpdatesOf(qs, a.word) = {i}
                        /\ qs[i].params[1] = a.ipa_word /\ AppliesWhenIpaAbsent(qs[i].sql)
                  /\ \E i \in AssocUpdatesOf(qs, a.word) :
                        /\ AssocUpdatesOf(qs, a.word) = {i}
                        /\ qs[i].params[1] = a.association /\ HasRepairClause(qs[i].sql)
            /\ (a.is_phrase /\ HasBoth(r)) =>
                  /\ \E i \in 1..Len(qs) : IsInsertOf(qs[i], a.word)
                  /\ \E i \in IpaUpdatesOf(qs, a.word) :
                        qs[i].params[1] = a.ipa_word /\ AppliesWhenIpaAbsent(qs[i].sql)
                  /\ \E i \in AssocUpdatesOf(qs, a.word) :
                        qs[i].params[1] = a.association /\ ~HasRepairClause(qs[i].sql)
            /\ (~a.is_phrase /\ a.is_verb /\ ~a.is_noun_and_verb) =>
                  /\ \A i \in 1..Len(qs) : qs[i].sql.op = "INSERT"
                  /\ InsertedWords(qs) = [i \in 1..Len(a.entries) |-> a.entries[i].phrase]

\* a paradigm row with transcription and association that is inserted and
\* never updated
C22_ParadigmRowInsertedOnly ==
    \E s \in ReturnedSessions :
        /\ call[s].actions.is_verb /\ ~call[s].actions.is_noun_and_verb
        /\ \E r \in ResolvedRows(s) :
              /\ HasBoth(r)
              /\ IpaUpdatesOf(QueriesOf(s), r.word) = {}
              /\ AssocUpdatesOf(QueriesOf(s), r.word) = {}

\* a derived feminine row with transcription and association that is
\* inserted and never updated
C22_FeminineRowInsertedOnly ==
    \E s \in ReturnedSessions :
        /\ ~call[s].actions.is_verb /\ ~call[s].actions.is_phrase
        /\ \E r \in ResolvedRows(s) :
              /\ HasBoth(r) /\ r.word # call[s].actions.word
              /\ IpaUpdatesOf(QueriesOf(s), r.word) = {}

\* ------------------------------------------------------------------------
\* add_word and prepare_word_actions on a list that already holds rows:
\* words stored by earlier calls, and rows stored by earlier writers of the
\* table (edge punctuation kept, a phrase typed without its space).
\* ------------------------------------------------------------------------

IpaNousSommes == <<"/", "n", "u", " ", "s", "u0254", "m", "/">>

StoredTables ==
    {<<>>,
     <<Row(<<"v", "e", "r">>, <<"v", "e", "r", ",", " ", "g", "u", "s", "a", "n", "o">>, 1, IpaVers)>>,
     <<Row(<<"v", "e", "r">>, Null, 1, IpaVers)>>,
     <<Row(<<"v", "e", "r", "t", "!">>, <<"v", "e", "r", "t", "!", ",", " ", "v", "e", "r", "d", "e">>, 1, IpaVers)>>,
     <<Row(<<"v", "e", "r", "s", ".">>, <<"v", "e", "r", "s", ".", ",", " ", "h", "a", "c", "i", "a">>, 1, IpaVers)>>,
     <<Row(<<"v", "e", "r">>, Null, 1, IpaVers), Row(<<"v", "e", "r", "r", "e">>, <<"l", "e", " ", "v", "e", "r", "r", "e", ",", " ", "v", "a", "s", "o">>, 1, IpaVers)>>,
     <<Row(<<"n", "o", "u", "s", "s", "o", "m", "m", "e", "s">>, <<"n", "o", "u", "s", "s", "o", "m", "m", "e", "s", ",", " ", "s", "o", "m", "o", "s">>, 1, IpaNousSommes)>>}

StoredInputs == {FrInput(w, {}) : w \in {<<"v", "e", "r", "s">>, <<"v", "e", "r", "t">>, <<"s", "o", "m", "m", "e", "s">>}}

InitStored ==
    /\ words \in StoredTables
    /\ rejected = {}
    /\ env_link \in PrepareEnvLinkValues
    /\ \E m \in Modes : client = [s \in Sessions |-> m]
    /\ pc = [s \in Sessions |-> "idle"]
    /\ call = [s \in Sessions |-> NoCall]
    /\ qi = [s \in Sessions |-> 0]
    /\ link = [s \in Sessions |-> NoLink]
    /\ result = [s \in Sessions |-> NoResult]
    /\ ncalls = 0
    /\ chat = NoChat

CallStored(s) == CallWith(s, StoredInputs)

NextStored ==
    \/ CallStored(1)
    \/ ExecStatement(1)
    \/ LinkSelectCandidates(1)
    \/ LinkSelectCurrent(1)
    \/ LinkUpdateCurrent(1)
    \/ LinkUpdateOther(1)
    \/ Lookup(1)

SpecStored == InitStored /\ [][NextStored]_vars

\* ------------------------------------------------------------------------
\* Homophone eligibility
\* ------------------------------------------------------------------------

\* a word with whitespace, a d'/l' contraction prefix or edge punctuation
Ineligible(w) ==
    \/ \E i \in 1..Len(w) : w[i] \in WhitespaceChars
    \/ StartsWith(Lower(w), <<"d", "'">>)
    \/ StartsWith(Lower(w), <<"l", "'">>)
    \/ _strip_edge_punctuation(w) # w

\* the words in the homophone suffix of an association
SuffixWords(association) == SeqToSet(HomophoneItems(OrEmpty(association)))

\* session s is about to execute a compiled link statement
CompiledLinkDue(s) ==
    /\ pc[s] = "exec"
    /\ qi[s] <= Len(call[s].actions.queries)
    /\ call[s].actions.queries[qi[s]].sql.op \in {"LINK_SELF", "LINK_OTHERS"}

\* session s is inside the loop of the live linking
LiveLinkDue(s) == pc[s] \in {"link_self", "link_other"}

\* session s takes a step
Steps(s) == pc'[s] # pc[s] \/ qi'[s] # qi[s] \/ link'[s] # link[s]

ChangedRows == {i \in 1..Len(words) : words'[i].association # words[i].association}

PureVerbHasNoLinkStatement(s) ==
    (call[s].made /\ call[s].actions.is_verb /\ ~call[s].actions.is_noun_and_verb) =>
        \A i \in 1..Len(call[s].actions.queries) :
            call[s].actions.queries[i].sql.op \notin {"LINK_SELF", "LINK_OTHERS"}

\* C23 as stated: in the compiled and in the live path, a linking step never
\* modifies the association of a word with whitespace, a d'/l' prefix or edge
\* punctuation, and never adds such a word to a suffix; add_word is never
\* inside the live linking with a multi-token primary word; the ActionSet of
\* a pure verb holds no link statement.
C23_OnlyEligibleWordsLinked ==
    [][\A s \in Sessions :
          /\ ((CompiledLinkDue(s) \/ LiveLinkDue(s)) /\ Steps(s)) =>
                /\ Len(words') = Len(words)
                /\ \A i \in ChangedRows : ~Ineligible(words[i].word)
                /\ \A i \in 1..Len(words) :
                      \A w \in SuffixWords(words'[i].association) \ SuffixWords(words[i].association) :
                          ~Ineligible(w)
          /\ (pc[s] \in {"link_current", "link_self", "link_other"}) =>
                ~HasChar(PrimaryWord(call[s]), " ")
          /\ PureVerbHasNoLinkStatement(s)]_vars

\* what holds: a compiled link statement is emitted only for a canonical
\* single token and changes only that word's row and rows that pass the
\* statement's NOT LIKE filters; the live linking changes only the row of
\* its word and rows of canonical candidates without a space; the ActionSet
\* of a pure verb holds no link statement.
C23_LinkedAsFiltered ==
    [][\A s \in Sessions :
          /\ (CompiledLinkDue(s) /\ Steps(s)) =>
                LET q == call[s].actions.queries[qi[s]]
                    word == IF q.sql.op = "LINK_SELF" THEN q.params[2] ELSE q.params[1]
                IN  /\ ~HasChar(word, " ")
                    /\ _canonical_word_for_homophones(<<"f", "r">>, word) = word
                    /\ \A i \in ChangedRows :
                          IF q.sql.op = "LINK_SELF" THEN words[i].word = word
                          ELSE words[i].word # word /\ SqlEligibleWord(words[i].word)
          /\ (LiveLinkDue(s) /\ Steps(s)) =>
                /\ _canonical_word_for_homophones(<<"f", "r">>, link[s].word) = link[s].word
                /\ \A i \in ChangedRows :
                      \/ words[i].word = link[s].word
                      \/ /\ ~HasChar(words[i].word, " ")
                         /\ _canonical_word_for_homophones(<<"f", "r">>, words[i].word) = words[i].word
          /\ PureVerbHasNoLinkStatement(s)]_vars

\* the live linking has linked the paradigm phrase of a pure verb
C23_PhraseRowLinked ==
    \E i \in 1..Len(words) :
        /\ HasChar(words[i].word, " ")
        /\ SuffixWords(words[i].association) # {}
        /\ \E j \in 1..Len(words) : words[i].word \in SuffixWords(words[j].association)

\* a compiled link statement has linked a row with edge punctuation
C23_PunctuatedRowLinked ==
    \E i \in 1..Len(words) :
        /\ _strip_edge_punctuation(words[i].word) # words[i].word
        /\ SuffixWords(words[i].association) # {}

\* ------------------------------------------------------------------------
\* Transcriptions of multi-token phrases
\* ------------------------------------------------------------------------

\* the multi-token French phrases of a call with their stored transcription:
\* the phrase of a phrase input, the pronoun+verb phrases of a paradigm
PhraseTranscriptions(s) ==
    LET a == call[s].actions
        lang == Strip(Lower(call[s].input.language))
        clean == _normalize_user_text(call[s].input.language, call[s].input.palabra)
        rows == (IF a.is_phrase THEN {[phrase |-> clean, ipa |-> OrEmpty(a.ipa_word)]} ELSE {})
                \cup {[phrase |-> a.entries[i].phrase, ipa |-> a.entries[i].ipa] :
                        i \in 1..Len(a.entries)}
    IN  {r \in rows : lang = <<"f", "r">> /\ Len(_tokenize_phrase(lang, r.phrase)) >= 2 /\ r.ipa # <<>>}

\* C24 as stated: for a French phrase of two or more tokens, a transcription
\* is kept in the ActionSet only if its segments, delimited by whitespace or
\* the liaison marker, are as many as the tokens of the phrase.
C24_SegmentsMatchTokens ==
    \A s \in ReturnedSessions :
        \A r \in PhraseTranscriptions(s) :
            Len(IpaSegments(r.ipa)) = Len(_tokenize_phrase(<<"f", "r">>, r.phrase))

\* C24 amended: the transcription returned for a phrase input is kept as it
\* is whenever it is one segment wrapped in slashes without brackets; the
\* number of its segments is not compared with the number of tokens.
C24_WrappedTranscriptionKept ==
    \A s \in PhraseCalls :
        LET clean == _normalize_user_text(call[s].input.language, call[s].input.palabra)
            reply == Reply(call[s].input.svc, "phrase_ipa", clean)
        IN  (/\ call[s].input.api_key \notin {Null, <<>>}
             /\ reply.json
             /\ _normalize_ipa_wrapping(StripOrEmpty(reply.obj.ipa)) # Null) =>
                call[s].actions.ipa_word = Strip(reply.obj.ipa)

\* a phrase of two tokens stored with a transcription of three segments
C24_Witness ==
    \E s \in PhraseCalls :
        /\ call[s].actions.is_phrase
        /\ Len(_tokenize_phrase(<<"f", "r">>, call[s].actions.word)) = 2
        /\ call[s].actions.ipa_word \notin {Null, <<>>}
        /\ Len(IpaSegments(call[s].actions.ipa_word)) = 3
        /\ \E i \in 1..Len(QueriesOf(s)) :
              IsIpaUpdateOf(QueriesOf(s)[i], call[s].actions.word)

\* ------------------------------------------------------------------------
\* Two concurrent add_word calls on a list that holds a homophone of both
\* ------------------------------------------------------------------------

\* the stored word X with the linking switch of the environment: X with
\* its '<phrase>, <translation>' association, X stored without association,
\* and X with the compiled linking switched off
RaceSetups ==
    {[words |-> <<Row(<<"v", "e", "r">>, <<"v", "e", "r", ",", " ", "g", "u", "s", "a", "n", "o">>, 1, IpaVers)>>, env_link |-> <<>>],
     [words |-> <<Row(<<"v", "e", "r">>, Null, 1, IpaVers)>>, env_link |-> <<>>],
     [words |-> <<Row(<<"v", "e", "r">>, <<"v", "e", "r", ",", " ", "g", "u", "s", "a", "n", "o">>, 1, IpaVers)>>, env_link |-> <<"0">>]}

\* the word each session adds
RaceInputs(s) ==
    {FrInput(IF s = 1 THEN <<"v", "e", "r", "s">> ELSE <<"v", "e", "r", "t">>, {})}

InitRace ==
    /\ \E setup \in RaceSetups : words = setup.words /\ env_link = setup.env_link
    /\ rejected = {}
    /\ client = [s \in Sessions |-> "add_word"]
    /\ pc = [s \in Sessions |-> "idle"]
    /\ call = [s \in Sessions |-> NoCall]
    /\ qi = [s \in Sessions |-> 0]
    /\ link = [s \in Sessions |-> NoLink]
    /\ result = [s \in Sessions |-> NoResult]
    /\ ncalls = 0
    /\ chat = NoChat

\* each session calls add_word once
CallRace(s) ==
    /\ ~call[s].made
    /\ CallWith(s, RaceInputs(s))

NextRace ==
    \E s \in Sessions :
        \/ CallRace(s)
        \/ ExecStatement(s)
        \/ LinkSelectCandidates(s)
        \/ LinkSelectCurrent(s)
        \/ LinkUpdateCurrent(s)
        \/ LinkUpdateOther(s)
        \/ Lookup(s)

SpecRace == InitRace /\ [][NextRace]_vars

\* both calls are over, for two distinct words
BothAdded ==
    /\ \A s \in Sessions : call[s].made /\ pc[s] = "idle" /\ result[s].returned
    /\ call[1].actions.word # call[2].actions.word

\* the row of the stored word X lacks one of the two added words
LostOnStoredWord ==
    /\ BothAdded
    /\ \E i \in 1..Len(words) :
          /\ words[i].word = <<"v", "e", "r">>
          /\ \E s \in Sessions : call[s].actions.word \notin SuffixWords(words[i].association)

\* the association of X that session s read in its candidate query
ReadOfStoredWord(s) ==
    {link[s].candidates[k][2] :
        k \in {j \in 1..Len(link[s].candidates) : link[s].candidates[j][1] = <<"v", "e", "r">>}}

\* C25: the live linking takes no lock and does not read a candidate's
\* association again: the value a session writes to a candidate's row is
\* computed from the association its candidate query returned, whatever the
\* row holds by then.  Two add_word calls for A and B can therefore both read
\* the stored word X before the other writes it, and X ends without A or
\* without B in its suffix (C25_LostUpdate).
C25_WritesFromEarlierRead ==
    [][\A s \in Sessions :
          (pc[s] = "link_other" /\ pc'[s] # "link_other") =>
              LET l == link[s]
                  other_w == StripOrEmpty(l.candidates[l.k][1])
                  read == l.candidates[l.k][2]
                  new == _append_homophone_to_association(read, l.word)
              IN  \A i \in 1..Len(words) :
                      (words[i].word = other_w /\ words[i].list_id = call[s].input.list_id) =>
                          words'[i].association =
                              IF new # StripOrEmpty(read) THEN new ELSE words[i].association]_vars

\* both calls are over, each session read X's association before the other
\* session's word was in it, and X's final suffix lacks one of the two words
C25_LostUpdate ==
    /\ LostOnStoredWord
    /\ \A s \in Sessions :
          /\ ReadOfStoredWord(s) # {}
          /\ \A read \in ReadOfStoredWord(s) :
                \A t \in Sessions \ {s} : call[t].actions.word \notin SuffixWords(read)

\* with the compiled link statements in the ActionSet and a stored
\* '<phrase>, <translation>' association, X keeps both words
C25_StoredWordKeptWhenStatementsLink ==
    (/\ env_link = <<>>
     /\ words # <<>>
     /\ Contains(OrEmpty(words[1].association), <<",", " ">>)) => ~LostOnStoredWord

\* ------------------------------------------------------------------------
\* The live linking and the compiled link statements
\* ------------------------------------------------------------------------

\* the loop of _link_homophones_in_db from candidate k on, run without
\* interruption
RECURSIVE LinkLoop(_, _, _, _, _, _)
LinkLoop(tbl, list_id, word, candidates, current_assoc, k) ==
    IF k > Len(candidates) THEN tbl
    ELSE LET other_w == StripOrEmpty(candidates[k][1])
             other_assoc == candidates[k][2]
             new_current_assoc == _append_homophone_to_association(current_assoc, other_w)
             writes_current == new_current_assoc # StripOrEmpty(current_assoc)
             tbl1 == IF writes_current
                     THEN SetAssociation(tbl, new_current_assoc, word, list_id) ELSE tbl
             new_other_assoc == _append_homophone_to_association(other_assoc, word)
             tbl2 == IF new_other_assoc # StripOrEmpty(other_assoc)
                     THEN SetAssociation(tbl1, new_other_assoc, other_w, list_id) ELSE tbl1
         IN  IF SkipsCandidate(word, candidates[k][1])
             THEN LinkLoop(tbl, list_id, word, candidates, current_assoc, k + 1)
             ELSE LinkLoop(tbl2, list_id, word, candidates,
                           IF writes_current THEN new_current_assoc ELSE current_assoc, k + 1)

\* _link_homophones_in_db(cur, list_id, word, ipa_word), the candidate query
\* returning its rows in the order `order`
_link_homophones_in_db(tbl, list_id, word, ipa_word, order) ==
    LET ipa == Strip(OrEmpty(ipa_word))
        hits == SelectSeq(order, LAMBDA i : i \in CandidateRows(tbl, list_id, ipa, word))
        candidates == [k \in 1..Len(hits) |-> <<tbl[hits[k]].word, tbl[hits[k]].association>>]
    IN  IF OrEmpty(ipa_word) = <<>> THEN tbl
        ELSE IF _canonical_word_for_homophones(<<"f", "r">>, word) # word THEN tbl
        ELSE IF ipa = <<>> THEN tbl
        ELSE IF candidates = <<>> THEN tbl
        ELSE LinkLoop(tbl, list_id, word, candidates, StoredAssociation(tbl, word, list_id), 1)

\* the statements _append_homophone_link_queries compiles, executed in order
ExecLinkQueries(tbl, env, list_id, word, ipa_word, order) ==
    LET qs == _append_homophone_link_queries(env, list_id, word, ipa_word, 0)
    IN  IF qs = <<>> THEN tbl
        ELSE Execute(Execute(tbl, {}, qs[1], order), {}, qs[2], order)

Associations(tbl) == [i \in 1..Len(tbl) |-> OrEmpty(tbl[i].association)]

\* the stored words for which the two link statements are compiled
LinkableRows ==
    {i \in 1..Len(words) :
        /\ words[i].ipa \notin {Null, <<>>}
        /\ _should_link_homophones_for_word(<<>>, words[i].word)}

\* C26 as stated: from the same table state, executing the two compiled link
\* statements for (word, list_id, transcription) and running the live linking
\* for the same arguments leave every row with the same association.
C26_LiveLinkingEqualsCompiled ==
    \A i \in LinkableRows : \A order \in ScanOrders(words) :
        Associations(ExecLinkQueries(words, <<>>, words[i].list_id, words[i].word,
                                     words[i].ipa, order))
            = Associations(_link_homophones_in_db(words, words[i].list_id, words[i].word,
                                                  words[i].ipa, order))

\* the rows sharing list and transcription with row i, row i included
HomophoneClass(tbl, i) ==
    {j \in 1..Len(tbl) : tbl[j].list_id = tbl[i].list_id /\ tbl[j].ipa = tbl[i].ipa}

\* a canonical single token without ';' stored with a '<phrase>,
\* <translation>' association
CleanRow(r) ==
    /\ ~HasChar(r.word, " ") /\ ~HasChar(r.word, ";")
    /\ _canonical_word_for_homophones(<<"f", "r">>, r.word) = r.word
    /\ r.association \notin {Null, <<>>}
    /\ Strip(r.association) = r.association
    /\ Contains(r.association, <<",", " ">>)

\* what holds: the two paths agree on a table whose rows of that
\* transcription are canonical single tokens stored with a '<phrase>,
\* <translation>' association.
C26_EqualOnCleanRows ==
    \A i \in LinkableRows : \A order \in ScanOrders(words) :
        (\A j \in HomophoneClass(words, i) : CleanRow(words[j])) =>
            Associations(ExecLinkQueries(words, <<>>, words[i].list_id, words[i].word,
                                         words[i].ipa, order))
                = Associations(_link_homophones_in_db(words, words[i].list_id, words[i].word,
                                                      words[i].ipa, order))

\* a table of clean rows on which both paths add a missing homophone
C26_BothPathsLink ==
    \E i \in LinkableRows :
        /\ \A j \in HomophoneClass(words, i) : CleanRow(words[j])
        /\ Cardinality(HomophoneClass(words, i)) >= 2
        /\ \E order \in ScanOrders(words) :
              Associations(_link_homophones_in_db(words, words[i].list_id, words[i].word,
                                                  words[i].ipa, order)) # Associations(words)

\* ------------------------------------------------------------------------
\* The switch WORD_ADDER_LINK_HOMOPHONES
\* ------------------------------------------------------------------------

LinkingDisabled ==
    Lower(StripOrEmpty(env_link)) \in {<<"0">>, <<"f", "a", "l", "s", "e">>, <<"n", "o">>, <<"o", "f", "f">>}

NoLinkStatementCompiled ==
    \A s \in Sessions :
        call[s].made =>
            \A i \in 1..Len(call[s].actions.queries) :
                call[s].actions.queries[i].sql.op \notin {"LINK_SELF", "LINK_OTHERS"}

NoSuffixGrows ==
    \A i \in 1..Len(words) :
        SuffixWords(words'[i].association) \subseteq SuffixWords(words[i].association)

\* C27 as stated: with homophone linking disabled through the configuration
\* switch, no association ever gains a homophone suffix item:
\* prepare_word_actions emits no link statement and add_word performs no
\* live linking.
C27_DisabledLinkingAddsNothing ==
    [][LinkingDisabled =>
          /\ NoLinkStatementCompiled
          /\ NoSuffixGrows
          /\ \A s \in Sessions : pc'[s] \notin {"link_current", "link_self", "link_other"}]_vars

\* what holds: with the switch off no link statement is compiled, and a
\* caller that executes the compiled statements itself never makes a suffix
\* grow.
C27_DisabledLinkingCompilesNothing ==
    [][LinkingDisabled =>
          /\ NoLinkStatementCompiled
          /\ (\A s \in Sessions : client[s] = "queries") => NoSuffixGrows]_vars

\* add_word has linked two words although the switch is off
C27_LinkedWhileDisabled ==
    /\ LinkingDisabled
    /\ \E i \in 1..Len(words) : \E j \in 1..Len(words) :
          /\ i # j
          /\ words[j].word \in SuffixWords(words[i].association)
          /\ words[i].word \in SuffixWords(words[j].association)

\* ------------------------------------------------------------------------
\* Consistency of the classification fields of an ActionSet
\* ------------------------------------------------------------------------

SingleTokenCalls ==
    {s \in ReturnedSessions : ~IsPhraseInput(call[s].input.language, call[s].input.palabra)}

\* C28 as stated: in every ActionSet returned for a single-token input,
\* is_noun_and_verb equals (is_noun and is_verb), pos is noun_verb exactly
\* when both flags are true, and pos is other or adjective only when both
\* flags are false.
C28_ClassificationFieldsConsistent ==
    \A s \in SingleTokenCalls :
        LET a == call[s].actions
        IN  /\ a.is_noun_and_verb = (a.is_noun /\ a.is_verb)
            /\ (a.pos = <<"n", "o", "u", "n", "_", "v", "e", "r", "b">>) = (a.is_noun /\ a.is_verb)
            /\ a.pos \in {<<"o", "t", "h", "e", "r">>, <<"a", "d", "j", "e", "c", "t", "i", "v", "e">>} => (~a.is_noun /\ ~a.is_verb)

\* what holds: pos is noun_verb exactly when both flags are true, both flags
\* together imply is_noun_and_verb, adjective comes with both flags false, and
\* the fields agree in full whenever is_noun_and_verb says what the flags say.
C28_NounVerbOnlyWithBothFlags ==
    \A s \in SingleTokenCalls :
        LET a == call[s].actions
        IN  /\ (a.pos = <<"n", "o", "u", "n", "_", "v", "e", "r", "b">>) = (a.is_noun /\ a.is_verb)
            /\ (a.is_noun /\ a.is_verb) => a.is_noun_and_verb
            /\ a.pos = <<"a", "d", "j", "e", "c", "t", "i", "v", "e">> => (~a.is_noun /\ ~a.is_verb)
            /\ a.is_noun_and_verb = (a.is_noun /\ a.is_verb) =>
                  (a.pos = <<"o", "t", "h", "e", "r">> => (~a.is_noun /\ ~a.is_verb))

\* the "-mente" override has acted on a word classified as noun and verb
C28_OverrideAfterNounVerb ==
    \E s \in SingleTokenCalls :
        LET a == call[s].actions
        IN  /\ a.pos = <<"o", "t", "h", "e", "r">>
            /\ ~a.is_noun
            /\ a.is_verb
            /\ a.is_noun_and_verb

\* ------------------------------------------------------------------------
\* A rejected word and the rows of the list
\* ------------------------------------------------------------------------

\* the call of session s compiled a single-token word that the registry, with
\* the guard enabled, holds for the user and the language of the call
RejectedCall(s) ==
    /\ call[s].made
    /\ ~call[s].actions.is_phrase
    /\ call[s].input.user_id # Null
    /\ <<call[s].input.user_id, Lower(Strip(call[s].input.language)), call[s].actions.word>>
          \in rejected

\* session s executes one statement of its ActionSet
ExecutesStatement(s) == pc[s] = "exec" /\ qi'[s] = qi[s] + 1

\* no row with the word w is created, and no row with the word w changes
RowUntouched(w) ==
    /\ \A i \in 1..Len(words') : words'[i].word = w => i <= Len(words)
    /\ \A i \in 1..Len(words) : words[i].word = w => words'[i] = words[i]

\* C29 as stated: with the guard enabled and (user_id, language, w) in the
\* registry, executing the ActionSet compiled for the single-token word w
\* changes no row of the list: the row for w is neither created nor updated,
\* and no other row's association gains w in its homophone suffix.
C29_RejectedWordChangesNoRow ==
    [][\A s \in Sessions :
          (RejectedCall(s) /\ ExecutesStatement(s)) =>
              /\ words' = words
              /\ RowUntouched(call[s].actions.word)
              /\ \A i \in 1..Len(words) :
                    call[s].actions.word \in SuffixWords(words'[i].association) =>
                        call[s].actions.word \in SuffixWords(words[i].association)]_vars

\* what holds: the row for the rejected word is neither created nor updated.
C29_RejectedWordRowUntouched ==
    [][\A s \in Sessions :
          (RejectedCall(s) /\ ExecutesStatement(s)) =>
              RowUntouched(call[s].actions.word)]_vars

\* a row of the list names a rejected word of its user in its homophone suffix
C29_RejectedWordInSuffix ==
    \E s \in Sessions : \E i \in 1..Len(words) :
        /\ RejectedCall(s)
        /\ client[s] = "queries"
        /\ call[s].actions.word \in SuffixWords(words[i].association)
        /\ \A j \in 1..Len(words) : words[j].word # call[s].actions.word


\* ------------------------------------------------------------------------
\* The normalizer applied to its own output (SpecNormalize): raw texts over
\* a small alphabet, compiled without an API key.
\* ------------------------------------------------------------------------

MaxRawLen == 4

RawChars == {"a", "D", ".", " ", "'"}

RawTexts == UNION {[1..k -> RawChars] : k \in 0..MaxRawLen}

NormalizeLanguages == {<<"f", "r">>, <<"e", "n">>}

NormalizeInputs ==
    {Input(t, 1, l, Null, <<"u">>, Null, Service({})) : t \in RawTexts, l \in NormalizeLanguages}

InitNormalize ==
    /\ words = <<>>
    /\ rejected = {}
    /\ env_link = <<>>
    /\ client = [s \in Sessions |-> "queries"]
    /\ pc = [s \in Sessions |-> "idle"]
    /\ \E input \in NormalizeInputs :
          call = [s \in Sessions |-> IF s = 1 THEN [NoCall EXCEPT !.input = input] ELSE NoCall]
    /\ qi = [s \in Sessions |-> 0]
    /\ link = [s \in Sessions |-> NoLink]
    /\ result = [s \in Sessions |-> NoResult]
    /\ ncalls = 0
    /\ chat = NoChat

SpecNormalize == InitNormalize /\ [][NextPrepare]_vars

HasWhitespace(t) == \E i \in 1..Len(t) : t[i] \in WhitespaceChars

\* C30 as stated: for every raw text and language, _normalize_user_text
\* applied to its own output returns that output unchanged, and the word of
\* a single-token ActionSet is its own canonical form.
C30_NormalizerIdempotent ==
    \A s \in Sessions :
        call[s].made =>
            LET l == call[s].input.language
                once == _normalize_user_text(l, call[s].input.palabra)
            IN  /\ _normalize_user_text(l, once) = once
                /\ (result[s].returned /\ ~call[s].actions.is_phrase) =>
                       _canonical_word_for_homophones(l, call[s].actions.word)
                           = call[s].actions.word

\* what holds: on a raw text without whitespace the normalizer is idempotent.
C30_IdempotentWithoutWhitespace ==
    \A s \in Sessions :
        (call[s].made /\ ~HasWhitespace(call[s].input.palabra)) =>
            LET l == call[s].input.language
                once == _normalize_user_text(l, call[s].input.palabra)
            IN  _normalize_user_text(l, once) = once

\* a single-token ActionSet whose word still ends with a full stop
C30_EdgePunctuationKept ==
    \E s \in Sessions :
        /\ call[s].made
        /\ result[s].returned
        /\ ~call[s].actions.is_phrase
        /\ Len(call[s].actions.word) > 1
        /\ call[s].actions.word[Len(call[s].actions.word)] = "."
        /\ _canonical_word_for_homophones(call[s].input.language, call[s].actions.word)
              # call[s].actions.word

=============================================================================
